---- MODULE Spec2Model ----
(***************************************************************************)
(* The signal lifecycle of the trading platform: the strategy engine       *)
(* inserts PENDING rows into trade_signals, the risk manager sizes or      *)
(* expires them, the executor submits orders to the broker, monitors the   *)
(* fills and attaches a protective trailing stop behind a circuit breaker. *)
(*                                                                         *)
(* The store is modelled by the meaning of the SQL statements the workers  *)
(* issue; every statement of this specification succeeds (store faults     *)
(* are outside Spec).  Workers interleave at their suspension points: a    *)
(* store fetch, a broker round trip, the sleep between two cycles.         *)
(* Time is counted in whole minutes, prices in whole dollars.              *)
(***************************************************************************)
EXTENDS Integers, Sequences, FiniteSets, TLC

\* -------------------------------------------------------------------------
\* Bounds of the model
\* -------------------------------------------------------------------------
MaxSignals == 2
\* broker orders up to which a store fault or a stop of the process is drawn
MaxOrders == 3
MaxClock == 61

\* -------------------------------------------------------------------------
\* Program constants
\* -------------------------------------------------------------------------
account_size == 100000
\* risk_pct = 0.01, held in basis points
risk_pct == 100
max_signal_age_minutes == 60
max_retries == 3
BreakerThreshold == 3
LookbackMinutes == 60
\* TRAIL_PERCENT_DEFAULT = 2.0, held in tenths of a percent
TRAIL_PERCENT_DEFAULT == 20
\* smart_sleep.py: the exchange session and the two cadences, seconds
MARKET_OPEN_HOUR == 9
MARKET_OPEN_MINUTE == 30
MARKET_CLOSE_HOUR == 16
MARKET_CLOSE_MINUTE == 0
SLEEP_ACTIVE == 300
SLEEP_PASSIVE == 3600

\* SQL NULL / Python None for the numeric columns
NULL == -1

\* the symbols and signal types the strategy's inputs are drawn from
Symbols == {"AAPL"}
EmittedEntryTypes == {"VWAP_SCALP"}
EmittedExitTypes == {"PANIC_EXIT"}
EntryTypes == {"VWAP_SCALP", "DEEP_VALUE_BUY", "TREND_BUY"}
ExitTypes == {"TAKE_PROFIT_EXIT", "PANIC_EXIT"}
SignalTypes == EntryTypes \cup ExitTypes
Statuses ==
  {"PENDING", "SIZED", "SUBMITTED", "EXECUTED", "EXECUTED_NO_STOP", "FAILED", "EXPIRED"}

\* atr_14 of the candidate row, in cents
AtrValues == {200}
\* latest 5m close of a symbol as the risk manager's subquery may find it
CloseValues == {NULL, 0, 150, 1500}
\* instants of the wall clock the model visits: the start, and the minutes
\* from max_signal_age_minutes on
ClockValues == {0} \cup {t \in 1..MaxClock : t >= max_signal_age_minutes}
\* open instants of the 5m candles
IsCandleTime(t) == t % 5 = 0

\* -------------------------------------------------------------------------
\* Broker replies.  An exception carries the HTTP status code of the
\* response and the text str(error) gives; the text is held as the set of
\* three-digit tokens that occur in it.
\* -------------------------------------------------------------------------
OkReply == [ok |-> TRUE, code |-> 200, text |-> {}]
Errors ==
  { [ok |-> FALSE, code |-> 503, text |-> {"503"}],
    [ok |-> FALSE, code |-> 403, text |-> {}],
    [ok |-> FALSE, code |-> 400, text |-> {"500"}],
    [ok |-> FALSE, code |-> 400, text |-> {}] }
BrokerReplies == {OkReply} \cup Errors
NoReply == [ok |-> FALSE, code |-> 0, text |-> {}]

\* order statuses of the broker
OpenOrderStatuses == {"new", "partially_filled"}
DeadOrderStatuses == {"canceled", "rejected", "expired"}
OrderNext(s) ==
  CASE s = "new" -> {"partially_filled", "filled"} \cup DeadOrderStatuses
    [] s = "partially_filled" -> {"filled", "canceled"}
    [] OTHER -> {}
FillPrice == 150

VARIABLES
  now,                      \* wall clock, minutes
  trade_signals,            \* table trade_signals, row id = index
  executed_trades,          \* table executed_trades, append only
  system_logs,              \* CRITICAL rows of table system_logs
  orders,                   \* the broker's orders, order id = index
  failure_count,            \* AlpacaExecutor.failure_count
  circuit_breaker_tripped,  \* AlpacaExecutor.circuit_breaker_tripped
  api_connected,            \* AlpacaExecutor.api is a client (not None)
  ex_pc,                    \* executor position in its cycle
  ex_rows,                  \* rows fetched by the running pass, not yet handled
  ex_attempt,               \* attempt of the stop retry loop, 0 outside it
  stop_submits,             \* per signal: trailing-stop orders sent to the broker
  stop_slept,               \* per signal: seconds slept in the stop retry loop
  ex_sleep,                 \* seconds the executor sleeps at the end of its cycle
  ev,                       \* the broker call of the last step, if any
  settled,                  \* nothing has changed since an executor cycle ended
  sleep_mode,               \* system_config value of key sleep_mode
  ny_time,                  \* America/New_York: weekday, second of day, millisecond
  sleep_seconds,            \* result of get_sleep_seconds, argument of smart_sleep
  slept,                    \* time.sleep(1) calls of the running smart_sleep
  sl_pc,                    \* position of a worker in its cadence
  db_pc,                    \* position of the risk manager in get_db_connection
  db_attempt,               \* attempt of get_db_connection's loop, 0 outside it
  db_err,                   \* outcome of the last psycopg2.connect
  candidate,                \* run_strategy: the candidate row being evaluated
  macro_regime,             \* run_strategy: result of get_macro_regime
  emitted,                  \* signal type the last evaluation inserted, if any
  st_pc,                    \* position of the strategy in its cycle
  positions,                \* evaluate_exits: what api.list_positions() returned
  pos_next,                 \* evaluate_exits: index of the position to evaluate
  ta_bars,                  \* per symbol: dates of the 5m bars after the first 49
  technical_indicators,     \* table technical_indicators: symbol, bar, date
  ta_written,               \* rows of the last executemany of the TA cycle
  ta_processed,             \* symbols process_symbol was called for in the cycle
  ta_next,                  \* TACalculator.run: index of the next symbol
  ta_pc,                    \* position of the TA calculator in its cycle
  market_closes,            \* per symbol: close of the last 5m bars, oldest first
  ai_predictions,           \* table ai_predictions
  fc_written,               \* rows of the executemany of the last inference cycle
  fc_pc,                    \* position of the predictive engine in its cycle
  rm_pc,                    \* position of the risk manager in its cycle
  rm_expired,               \* process_pending_signals: the list expired_updates
  rm_updates,               \* process_pending_signals: the list updates
  rm_tx,                    \* statements run on the risk manager's connection
  interval_minutes,         \* get_sleep_time_to_next_candle: candle timeframe
  offset_seconds            \* get_sleep_time_to_next_candle: delay after the mark

store_vars ==
  << now, trade_signals, executed_trades, system_logs, orders, failure_count,
     circuit_breaker_tripped, api_connected, ex_pc, ex_rows, ex_attempt,
     stop_submits, stop_slept, ex_sleep, ev, settled >>

sleep_vars == << sleep_mode, ny_time, sleep_seconds, slept, sl_pc >>

conn_vars == << db_pc, db_attempt, db_err >>

strat_vars == << candidate, macro_regime, emitted, st_pc, positions, pos_next >>

ta_vars ==
  << ta_bars, technical_indicators, ta_written, ta_processed, ta_next, ta_pc >>

fc_vars == << market_closes, ai_predictions, fc_written, fc_pc >>

rm_vars == << rm_pc, rm_expired, rm_updates, rm_tx >>

candle_vars == << interval_minutes, offset_seconds >>

\* what the store and the executor leave alone
idle_vars ==
  << sleep_vars, conn_vars, strat_vars, ta_vars,
     fc_vars, rm_vars, candle_vars >>

\* what the cadence leaves alone
beside_sleep ==
  << store_vars, conn_vars, strat_vars, ta_vars,
     fc_vars, rm_vars, candle_vars >>

\* what a worker opening its connection leaves alone, the store apart
beside_conn ==
  << sleep_vars, strat_vars, ta_vars, fc_vars, rm_vars, candle_vars >>

\* what the evaluation of a candidate leaves alone, the store apart
beside_strat ==
  << sleep_vars, conn_vars, ta_vars, fc_vars, rm_vars, candle_vars >>

\* what the indicator engine leaves alone
beside_ta ==
  << store_vars, sleep_vars, conn_vars, strat_vars,
     fc_vars, rm_vars, candle_vars >>

\* what the predictive engine leaves alone
beside_fc ==
  << store_vars, sleep_vars, conn_vars, strat_vars,
     ta_vars, rm_vars, candle_vars >>

\* what the steps of a risk-manager cycle leave alone, the store apart
beside_rm ==
  << sleep_vars, conn_vars, strat_vars, ta_vars, fc_vars, candle_vars >>

vars ==
  << store_vars, sleep_vars, conn_vars, strat_vars,
     ta_vars, fc_vars, rm_vars, candle_vars >>

NoCall == [call |-> "none", id |-> 0, made |-> FALSE, reply |-> NoReply]
Call(op, id, made, reply) == [call |-> op, id |-> id, made |-> made, reply |-> reply]

Ids == DOMAIN trade_signals
IdsWithStatus(st) == {i \in Ids : trade_signals[i].status = st}
\* the rows of a SELECT without ORDER BY arrive in any order
Orderings(S) ==
  {s \in [1..Cardinality(S) -> S] : \A i, j \in 1..Cardinality(S) : i # j => s[i] # s[j]}
IsExitType(ty) == ty \in ExitTypes

\* -------------------------------------------------------------------------
\* Executor: circuit breaker
\* -------------------------------------------------------------------------
\* is_critical of _check_circuit_breaker: substring search in str(error)
IsCritical(reply) ==
  \/ "401" \in reply.text \/ "403" \in reply.text
  \/ "500" \in reply.text \/ "502" \in reply.text
  \/ "503" \in reply.text \/ "504" \in reply.text

\* mutant of CheckCircuitBreaker: any exception that is not critical clears
\* the counter
CheckCircuitBreakerResets(reply, fc, tripped) ==
  IF IsCritical(reply)
  THEN [failure_count |-> fc + 1,
        circuit_breaker_tripped |-> (tripped \/ fc + 1 >= BreakerThreshold)]
  ELSE [failure_count |-> 0, circuit_breaker_tripped |-> tripped]

\* mutant of CheckCircuitBreaker: the threshold test is off by one
CheckCircuitBreakerLate(reply, fc, tripped) ==
  IF IsCritical(reply)
  THEN [failure_count |-> fc + 1,
        circuit_breaker_tripped |-> (tripped \/ fc + 1 > BreakerThreshold)]
  ELSE [failure_count |-> fc, circuit_breaker_tripped |-> tripped]

\* _check_circuit_breaker: the breaker state after an exception
CheckCircuitBreaker(reply, fc, tripped) ==
  IF IsCritical(reply)
  THEN [failure_count |-> fc + 1,
        circuit_breaker_tripped |-> (tripped \/ fc + 1 >= BreakerThreshold)]
  ELSE [failure_count |-> fc, circuit_breaker_tripped |-> tripped]

\* mutant of SafeApiCall: a half-open breaker, the call goes through and a
\* success closes the breaker again
SafeApiCallHalfOpen(reply, fc, tripped) ==
  IF reply.ok
  THEN [made |-> TRUE, ok |-> TRUE, failure_count |-> 0,
        circuit_breaker_tripped |-> FALSE]
  ELSE [made |-> TRUE, ok |-> FALSE,
        failure_count |-> CheckCircuitBreaker(reply, fc, tripped).failure_count,
        circuit_breaker_tripped |->
          CheckCircuitBreaker(reply, fc, tripped).circuit_breaker_tripped]

\* mutant of SafeApiCall: the guard on the tripped breaker is missing
SafeApiCallNoGuard(reply, fc, tripped) ==
  IF reply.ok
  THEN [made |-> TRUE, ok |-> TRUE, failure_count |-> (IF fc > 0 THEN 0 ELSE fc),
        circuit_breaker_tripped |-> tripped]
  ELSE [made |-> TRUE, ok |-> FALSE,
        failure_count |-> CheckCircuitBreaker(reply, fc, tripped).failure_count,
        circuit_breaker_tripped |->
          CheckCircuitBreaker(reply, fc, tripped).circuit_breaker_tripped]

\* _safe_api_call, reply being what the broker answers if it is asked:
\* whether the broker was called, whether a result came back, and the
\* breaker state afterwards
SafeApiCall(reply, fc, tripped) ==
  IF tripped
  THEN [made |-> FALSE, ok |-> FALSE, failure_count |-> fc,
        circuit_breaker_tripped |-> tripped]
  ELSE IF reply.ok
  THEN [made |-> TRUE, ok |-> TRUE, failure_count |-> (IF fc > 0 THEN 0 ELSE fc),
        circuit_breaker_tripped |-> tripped]
  ELSE [made |-> TRUE, ok |-> FALSE,
        failure_count |-> CheckCircuitBreaker(reply, fc, tripped).failure_count,
        circuit_breaker_tripped |->
          CheckCircuitBreaker(reply, fc, tripped).circuit_breaker_tripped]

\* -------------------------------------------------------------------------
\* Initial state: empty tables, the executor constructed.  _connect_api
\* trips the breaker when the environment is incomplete or REST() raises.
\* -------------------------------------------------------------------------
\* mutant of ConnectApi: the failure is logged, the breaker stays closed
ConnectApiStaysClosed(connected) == FALSE

\* _connect_api: circuit_breaker_tripped after the constructor, connected
\* being whether the three variables are set and REST() returned
ConnectApi(connected) == ~ connected

StoreInit ==
  /\ now = 0
  /\ trade_signals = << >>
  /\ executed_trades = << >>
  /\ orders = << >>
  /\ failure_count = 0
  /\ api_connected \in BOOLEAN
  /\ circuit_breaker_tripped = ConnectApi(api_connected)
  /\ system_logs = IF circuit_breaker_tripped
                   THEN << [level |-> "CRITICAL", id |-> 0] >> ELSE << >>
  /\ ex_pc = "idle"
  /\ ex_rows = << >>
  /\ ex_attempt = 0
  /\ stop_submits = << >>
  /\ stop_slept = << >>
  /\ ex_sleep = 0
  /\ ev = NoCall
  /\ settled = FALSE

\* no worker is in its cadence: the store and the executor are looked at alone
SleepIdle ==
  /\ sleep_mode = "AUTO"
  /\ ny_time = [weekday |-> 0, second |-> 0, millisecond |-> 0]
  /\ sleep_seconds = 0
  /\ slept = 0
  /\ sl_pc = "idle"

\* no worker is opening a connection
ConnIdle ==
  /\ db_pc = "idle"
  /\ db_attempt = 0
  /\ db_err = "none"

\* the strategy is between two cycles
StratIdle ==
  /\ candidate = [symbol |-> "AAPL", timestamp |-> 0, close |-> NULL, volume |-> NULL,
                  sma_200 |-> NULL, rsi_14 |-> NULL, vwap |-> NULL, atr_14 |-> NULL,
                  volume_sma_20 |-> NULL, ensemble_pct_change |-> NULL]
  /\ macro_regime = "BULL"
  /\ emitted = "none"
  /\ st_pc = "idle"
  /\ positions = << >>
  /\ pos_next = 0

\* the indicator engine is between two cycles, no bar beyond the first 49
TaIdle ==
  /\ ta_bars = [sym \in {"AAPL", "MSFT"} |-> << >>]
  /\ technical_indicators = {}
  /\ ta_written = {}
  /\ ta_processed = {}
  /\ ta_next = 0
  /\ ta_pc = "idle"

\* the predictive engine is between two cycles, no bar harvested yet
FcIdle ==
  /\ market_closes = [sym \in {"AAPL", "MSFT"} |-> << >>]
  /\ ai_predictions = {}
  /\ fc_written = {}
  /\ fc_pc = "idle"

\* the risk manager is between two cycles and has run none
RmIdle ==
  /\ rm_pc = "idle"
  /\ rm_expired = {}
  /\ rm_updates = {}
  /\ rm_tx = {}

\* the defaults of get_sleep_time_to_next_candle
CandleIdle ==
  /\ interval_minutes = 5
  /\ offset_seconds = 0

Init ==
  /\ StoreInit
  /\ SleepIdle
  /\ ConnIdle
  /\ StratIdle
  /\ TaIdle
  /\ FcIdle
  /\ RmIdle
  /\ CandleIdle

\* -------------------------------------------------------------------------
\* Clock
\* -------------------------------------------------------------------------
Tick ==
  /\ UNCHANGED idle_vars
  /\ settled' = FALSE
  /\ \E t \in ClockValues : t > now /\ now' = t
  /\ ev' = NoCall
  /\ UNCHANGED << trade_signals, executed_trades, system_logs, orders, failure_count,
                  circuit_breaker_tripped, api_connected, ex_pc, ex_rows,
                  ex_attempt, stop_submits, stop_slept, ex_sleep >>

\* -------------------------------------------------------------------------
\* Strategy engine (trend_following.py).  The indicator, forecast and
\* position tables are written by other services; the rows a cycle reads
\* from them are inputs of the action.
\* -------------------------------------------------------------------------
NewSignal(sym, ts, ty, size, atr) ==
  [symbol |-> sym, timestamp |-> ts, signal_type |-> ty, status |-> "PENDING",
   size |-> size, order_id |-> NULL, atr |-> atr]

InsertSignal(row) ==
  /\ trade_signals' = Append(trade_signals, row)
  /\ stop_submits' = Append(stop_submits, 0)
  /\ stop_slept' = Append(stop_slept, 0)

\* mutant of SignalExists: only PENDING rows count as duplicates
SignalExistsPending(sym, ts) ==
  \E i \in Ids : /\ trade_signals[i].symbol = sym
                 /\ trade_signals[i].timestamp = ts
                 /\ trade_signals[i].status = "PENDING"

\* SELECT id FROM trade_signals WHERE symbol = ? AND timestamp = ?
SignalExists(sym, ts) ==
  \E i \in Ids : /\ trade_signals[i].symbol = sym
                 /\ trade_signals[i].timestamp = ts

\* run_strategy, one candidate row of the last 60 minutes that matches a tier
StrategyEntry ==
  /\ UNCHANGED idle_vars
  /\ settled' = FALSE
  /\ Len(trade_signals) < MaxSignals
  /\ \E sym \in Symbols, ts \in ClockValues, ty \in EmittedEntryTypes, atr \in AtrValues :
       /\ IsCandleTime(ts)
       /\ ts <= now
       /\ ts >= now - LookbackMinutes
       /\ ~ SignalExists(sym, ts)
       /\ InsertSignal(NewSignal(sym, ts, ty, NULL, atr))
  /\ ev' = NoCall
  /\ UNCHANGED << now, executed_trades, system_logs, orders, failure_count,
                  circuit_breaker_tripped, api_connected, ex_pc, ex_rows,
                  ex_attempt, ex_sleep >>

\* mutant of PendingExitExists: the check finds nothing
PendingExitExistsNever(sym) == FALSE

\* the dedup query with status = 'SIZED' in place of 'PENDING'
PendingExitExistsSized(sym) ==
  \E i \in Ids : /\ trade_signals[i].symbol = sym
                 /\ trade_signals[i].status = "SIZED"
                 /\ IsExitType(trade_signals[i].signal_type)

\* SELECT id FROM trade_signals WHERE symbol = ? AND status = 'PENDING'
\* AND signal_type LIKE '%EXIT%'
PendingExitExists(sym) ==
  \E i \in Ids : /\ trade_signals[i].symbol = sym
                 /\ trade_signals[i].status = "PENDING"
                 /\ IsExitType(trade_signals[i].signal_type)

\* evaluate_exits, one open position whose exit rule fires
StrategyExit ==
  /\ UNCHANGED idle_vars
  /\ settled' = FALSE
  /\ Len(trade_signals) < MaxSignals
  /\ \E sym \in Symbols, ty \in EmittedExitTypes :
       /\ ~ PendingExitExists(sym)
       /\ InsertSignal(NewSignal(sym, now, ty, 0, NULL))
  /\ ev' = NoCall
  /\ UNCHANGED << now, executed_trades, system_logs, orders, failure_count,
                  circuit_breaker_tripped, api_connected, ex_pc, ex_rows,
                  ex_attempt, ex_sleep >>

\* -------------------------------------------------------------------------
\* Risk manager (risk_manager.py)
\* -------------------------------------------------------------------------
\* mutant of calculate_position_size: the quotient is rounded up
calculate_position_size_ceil(close_price) ==
  IF close_price <= 0 THEN 0
  ELSE (((account_size * risk_pct) \div 10000) + close_price - 1) \div close_price

\* calculate_position_size
calculate_position_size(close_price) ==
  IF close_price <= 0 THEN 0
  ELSE ((account_size * risk_pct) \div 10000) \div close_price

\* mutant of Decide: a stale signal is treated like a fresh one
DecideNoExpiry(row, clock) ==
  LET sig == trade_signals[row.id]
  IN  IF IsExitType(sig.signal_type)
        THEN [act |-> "SIZE", size |-> 0]
      ELSE IF row.close = NULL
        THEN [act |-> "SKIP", size |-> NULL]
      ELSE IF calculate_position_size(row.close) > 0
        THEN [act |-> "SIZE", size |-> calculate_position_size(row.close)]
      ELSE [act |-> "SKIP", size |-> NULL]

\* mutant of Decide: the exit branch comes after the test of the close
DecideExitNeedsClose(row, clock) ==
  LET sig == trade_signals[row.id]
      age_minutes == clock - sig.timestamp
  IN  IF age_minutes > max_signal_age_minutes
        THEN [act |-> "EXPIRE", size |-> NULL]
      ELSE IF row.close = NULL
        THEN [act |-> "SKIP", size |-> NULL]
      ELSE IF IsExitType(sig.signal_type)
        THEN [act |-> "SIZE", size |-> 0]
      ELSE IF calculate_position_size(row.close) > 0
        THEN [act |-> "SIZE", size |-> calculate_position_size(row.close)]
      ELSE [act |-> "SKIP", size |-> NULL]

\* mutant of Decide: the staleness test is >= instead of >
DecideAtAge(row, clock) ==
  LET sig == trade_signals[row.id]
      age_minutes == clock - sig.timestamp
  IN  IF age_minutes >= max_signal_age_minutes
        THEN [act |-> "EXPIRE", size |-> NULL]
      ELSE IF IsExitType(sig.signal_type)
        THEN [act |-> "SIZE", size |-> 0]
      ELSE IF row.close = NULL
        THEN [act |-> "SKIP", size |-> NULL]
      ELSE IF calculate_position_size(row.close) > 0
        THEN [act |-> "SIZE", size |-> calculate_position_size(row.close)]
      ELSE [act |-> "SKIP", size |-> NULL]

\* the loop body of process_pending_signals: what the cycle decides for one
\* fetched row
Decide(row, clock) ==
  LET sig == trade_signals[row.id]
      age_minutes == clock - sig.timestamp
  IN  IF age_minutes > max_signal_age_minutes
        THEN [act |-> "EXPIRE", size |-> NULL]
      ELSE IF IsExitType(sig.signal_type)
        THEN [act |-> "SIZE", size |-> 0]
      ELSE IF row.close = NULL
        THEN [act |-> "SKIP", size |-> NULL]
      ELSE IF calculate_position_size(row.close) > 0
        THEN [act |-> "SIZE", size |-> calculate_position_size(row.close)]
      ELSE [act |-> "SKIP", size |-> NULL]

\* mutant of SelectPending: the query has lost its WHERE clause
SelectPendingAll == Ids

\* the WHERE clause of the query of process_pending_signals
SelectPending == IdsWithStatus("PENDING")

\* the cycle as the last step, with the latest closes its query found
RmCall(close) ==
  [call |-> "process_pending_signals", id |-> 0, made |-> FALSE, reply |-> NoReply,
   close |-> close]

\* process_pending_signals, one cycle: the query of the PENDING rows, each
\* with the latest 5m close of its symbol (market_data is written by the
\* harvester alone, so the close found is an input), the loop, the two
\* executemany and the commit
ProcessPendingSignalsStore ==
  /\ settled' = FALSE
  /\ SelectPending # {}
  /\ \E close \in [Symbols -> CloseValues] :
       /\ trade_signals' =
            [i \in Ids |->
               IF i \in SelectPending
               THEN LET d == Decide([id |-> i, close |-> close[trade_signals[i].symbol]], now)
                    IN  CASE d.act = "EXPIRE" -> [trade_signals[i] EXCEPT !.status = "EXPIRED"]
                          [] d.act = "SIZE" -> [trade_signals[i] EXCEPT !.status = "SIZED",
                                                                       !.size = d.size]
                          [] OTHER -> trade_signals[i]
               ELSE trade_signals[i]]
       /\ ev' = RmCall(close)
  /\ UNCHANGED << now, executed_trades, system_logs, orders, failure_count,
                  circuit_breaker_tripped, api_connected, ex_pc, ex_rows,
                  ex_attempt, stop_submits, stop_slept, ex_sleep >>

\* the cycle with its connection taken as given
ProcessPendingSignals == ProcessPendingSignalsStore /\ UNCHANGED idle_vars

\* -------------------------------------------------------------------------
\* The risk manager's cycle, statement by statement
\* -------------------------------------------------------------------------
\* UPDATE trade_signals SET status = 'EXPIRED' WHERE id = ?, for each id
ExecuteExpired(table, expired_updates) ==
  [i \in DOMAIN table |->
     IF i \in expired_updates THEN [table[i] EXCEPT !.status = "EXPIRED"]
     ELSE table[i]]

\* UPDATE trade_signals SET size = ?, status = 'SIZED' WHERE id = ?, for each
\* pair (size, id)
ExecuteSized(table, updates) ==
  [i \in DOMAIN table |->
     IF \E u \in updates : u[2] = i
       THEN LET u == CHOOSE w \in updates : w[2] = i
            IN  [table[i] EXCEPT !.status = "SIZED", !.size = u[1]]
     ELSE table[i]]

\* the statements of a transaction, applied to the table
Transaction(table, statements, expired_updates, updates) ==
  LET expired == IF "expired" \in statements
                   THEN ExecuteExpired(table, expired_updates) ELSE table
  IN  IF "sized" \in statements THEN ExecuteSized(expired, updates) ELSE expired

\* a connection that commits each statement as it is executed
UncommittedAutocommit(table, written) == written

\* what the other connections read after a statement of a connection that
\* has not committed: the connection is not in autocommit mode
Uncommitted(table, written) == table

\* the rows of the cycle's two lists
CycleIds == rm_expired \cup {u[2] : u \in rm_updates}

\* an exception leaves the try block: nothing is committed, the connection
\* is closed
RmRollback ==
  /\ rm_pc' = "idle"
  /\ rm_tx' = {}
  /\ UNCHANGED << trade_signals, rm_expired, rm_updates >>

\* the SELECT of the PENDING rows and the loop that fills the two lists
RmBegin ==
  /\ UNCHANGED beside_rm
  /\ rm_pc = "idle"
  /\ SelectPending # {}
  /\ settled' = FALSE
  /\ \E close \in [Symbols -> CloseValues] :
       LET d(i) == Decide([id |-> i, close |-> close[trade_signals[i].symbol]], now)
       IN  /\ rm_expired' = {i \in SelectPending : d(i).act = "EXPIRE"}
           /\ rm_updates' = {<< d(i).size, i >> : i \in {j \in SelectPending : d(j).act = "SIZE"}}
           /\ ev' = RmCall(close)
  /\ rm_pc' = "expire"
  /\ rm_tx' = {}
  /\ UNCHANGED << now, trade_signals, executed_trades, system_logs, orders,
                  failure_count, circuit_breaker_tripped, api_connected, ex_pc,
                  ex_rows, ex_attempt, stop_submits, stop_slept, ex_sleep >>

\* if expired_updates: executemany of the EXPIRED statement
RmExpire ==
  /\ UNCHANGED beside_rm
  /\ rm_pc = "expire"
  /\ IF rm_expired = {}
       THEN /\ rm_pc' = "size"
            /\ UNCHANGED << trade_signals, rm_expired, rm_updates, rm_tx >>
     ELSE \E ok \in BOOLEAN :
            IF ok
              THEN /\ trade_signals' =
                        Uncommitted(trade_signals,
                                    ExecuteExpired(trade_signals, rm_expired))
                   /\ rm_tx' = rm_tx \cup {"expired"}
                   /\ rm_pc' = "size"
                   /\ UNCHANGED << rm_expired, rm_updates >>
            ELSE RmRollback
  /\ UNCHANGED << now, executed_trades, system_logs, orders, failure_count,
                  circuit_breaker_tripped, api_connected, ex_pc, ex_rows,
                  ex_attempt, stop_submits, stop_slept, ex_sleep, ev, settled >>

\* if updates: executemany of the SIZED statement
RmSize ==
  /\ UNCHANGED beside_rm
  /\ rm_pc = "size"
  /\ IF rm_updates = {}
       THEN /\ rm_pc' = "commit"
            /\ UNCHANGED << trade_signals, rm_expired, rm_updates, rm_tx >>
     ELSE \E ok \in BOOLEAN :
            IF ok
              THEN /\ trade_signals' =
                        Uncommitted(trade_signals,
                                    ExecuteSized(trade_signals, rm_updates))
                   /\ rm_tx' = rm_tx \cup {"sized"}
                   /\ rm_pc' = "commit"
                   /\ UNCHANGED << rm_expired, rm_updates >>
            ELSE RmRollback
  /\ UNCHANGED << now, executed_trades, system_logs, orders, failure_count,
                  circuit_breaker_tripped, api_connected, ex_pc, ex_rows,
                  ex_attempt, stop_submits, stop_slept, ex_sleep, ev, settled >>

\* if expired_updates or updates: conn.commit(); then conn.close()
RmCommit ==
  /\ UNCHANGED beside_rm
  /\ rm_pc = "commit"
  /\ IF rm_tx = {}
       THEN /\ rm_pc' = "idle"
            /\ UNCHANGED << trade_signals, rm_expired, rm_updates, rm_tx >>
     ELSE \E ok \in BOOLEAN :
            IF ok
              THEN /\ trade_signals' =
                        Transaction(trade_signals, rm_tx, rm_expired, rm_updates)
                   /\ rm_pc' = "idle"
                   /\ UNCHANGED << rm_expired, rm_updates, rm_tx >>
            ELSE RmRollback
  /\ UNCHANGED << now, executed_trades, system_logs, orders, failure_count,
                  circuit_breaker_tripped, api_connected, ex_pc, ex_rows,
                  ex_attempt, stop_submits, stop_slept, ex_sleep, ev, settled >>

\* -------------------------------------------------------------------------
\* Broker: an open market order moves on
\* -------------------------------------------------------------------------
BrokerOrderUpdate ==
  /\ UNCHANGED idle_vars
  /\ settled' = FALSE
  /\ \E o \in DOMAIN orders, st \in OpenOrderStatuses \cup {"filled"} \cup DeadOrderStatuses :
       /\ orders[o].type = "market"
       /\ st \in OrderNext(orders[o].status)
       /\ orders' = [orders EXCEPT ![o].status = st]
  /\ ev' = NoCall
  /\ UNCHANGED << now, trade_signals, executed_trades, system_logs, failure_count,
                  circuit_breaker_tripped, api_connected, ex_pc, ex_rows,
                  ex_attempt, stop_submits, stop_slept, ex_sleep >>

\* -------------------------------------------------------------------------
\* Cadence (shared/smart_sleep.py)
\* -------------------------------------------------------------------------
SleepModes == {"AUTO", "FORCE_AWAKE", "FORCE_SLEEP"}

SecondOfDay(h, m, sec) == h * 3600 + m * 60 + sec

\* ny_time.replace(hour, minute, second = 0, microsecond = 0), second of day
market_open == SecondOfDay(MARKET_OPEN_HOUR, MARKET_OPEN_MINUTE, 0)
market_close == SecondOfDay(MARKET_CLOSE_HOUR, MARKET_CLOSE_MINUTE, 0)

\* a time of day in milliseconds (datetime keeps microseconds)
Millis(t) == t.second * 1000 + t.millisecond

\* the clock readings looked at: every weekday, the seconds around the
\* session's bounds and around one and five minutes and one hour before the
\* open, on the second and half a second later
SampleSeconds ==
  {0, 1, SecondOfDay(12, 0, 0), SecondOfDay(23, 59, 59)}
    \cup {market_open - SLEEP_PASSIVE + d : d \in -1..1}
    \cup {market_open - SLEEP_ACTIVE + d : d \in -1..1}
    \cup {market_open - 60 + d : d \in -1..1}
    \cup {market_open + d : d \in -1..1}
    \cup {market_close + d : d \in -1..1}
NyTimes == [weekday : 0..6, second : SampleSeconds, millisecond : {0, 500}]

Min(a, b) == IF a <= b THEN a ELSE b

\* mutant of get_raw_market_status: 16:00:00 still counts as open
get_raw_market_status_inclusive(t) ==
  LET is_weekday == t.weekday < 5
      is_market_hours == /\ market_open * 1000 <= Millis(t)
                         /\ Millis(t) <= market_close * 1000
  IN  IF is_weekday /\ is_market_hours
      THEN [is_open |-> TRUE, seconds_until_open |-> 0]
      ELSE [is_open |-> FALSE,
            seconds_until_open |->
              IF is_weekday /\ Millis(t) < market_open * 1000
              THEN (market_open * 1000 - Millis(t)) \div 1000
              ELSE NULL]

\* get_raw_market_status for the clock reading t; int() drops the fraction
\* of the seconds left until the open
get_raw_market_status(t) ==
  LET is_weekday == t.weekday < 5
      is_market_hours == /\ market_open * 1000 <= Millis(t)
                         /\ Millis(t) < market_close * 1000
  IN  IF is_weekday /\ is_market_hours
      THEN [is_open |-> TRUE, seconds_until_open |-> 0]
      ELSE [is_open |-> FALSE,
            seconds_until_open |->
              IF is_weekday /\ Millis(t) < market_open * 1000
              THEN (market_open * 1000 - Millis(t)) \div 1000
              ELSE NULL]

\* get_market_status for the stored mode and the clock reading t
get_market_status(mode, t) ==
  LET raw == get_raw_market_status(t)
  IN  IF mode = "FORCE_AWAKE"
        THEN [is_open |-> TRUE, sleep_seconds |-> SLEEP_ACTIVE]
      ELSE IF mode = "FORCE_SLEEP"
        THEN [is_open |-> FALSE, sleep_seconds |-> SLEEP_PASSIVE]
      ELSE IF raw.is_open
        THEN [is_open |-> TRUE, sleep_seconds |-> SLEEP_ACTIVE]
      ELSE IF raw.seconds_until_open # NULL
        THEN [is_open |-> FALSE,
              sleep_seconds |-> Min(SLEEP_PASSIVE, raw.seconds_until_open)]
      ELSE [is_open |-> FALSE, sleep_seconds |-> SLEEP_PASSIVE]

get_sleep_seconds(mode, t) == get_market_status(mode, t).sleep_seconds

\* -------------------------------------------------------------------------
\* Executor (alpaca_executor.py)
\* -------------------------------------------------------------------------
SetStatus(id, st) == [trade_signals EXCEPT ![id].status = st]

\* mutant of MarkSubmitted: the order id is not persisted
MarkSubmittedNoOrderId(id, order_id) ==
  [trade_signals EXCEPT ![id].status = "SUBMITTED"]

\* UPDATE trade_signals SET status = 'SUBMITTED', order_id = ? WHERE id = ?
MarkSubmitted(id, order_id) ==
  [trade_signals EXCEPT ![id].status = "SUBMITTED", ![id].order_id = order_id]

\* mutant of SelectSized: PENDING rows are fetched as well
SelectSizedOrPending == IdsWithStatus("SIZED") \cup IdsWithStatus("PENDING")

\* the WHERE clauses of the two passes
SelectSized == IdsWithStatus("SIZED")
SelectSubmitted == IdsWithStatus("SUBMITTED")

\* the order the entry pass submits for a SIZED row
BuyOrder(sig, id) ==
  [symbol |-> sig.symbol, qty |-> sig.size, side |-> "buy", type |-> "market",
   status |-> "new", trail_price |-> NULL, trail_percent |-> NULL, signal |-> id]

\* the trail parameters of _submit_trailing_stop, trail_price in cents
TrailMultiplier(signal_type) ==
  CASE signal_type = "VWAP_SCALP" -> 15
    [] signal_type = "DEEP_VALUE_BUY" -> 20
    [] signal_type = "TREND_BUY" -> 30
    [] OTHER -> 20

\* a signal_type that is None or the empty string
NoType == ""

\* round(multiplier * float(atr), 2), atr in cents and the multiplier in
\* tenths, for products that are not halfway between two cents
Round2(multiplier, atr) == (multiplier * atr + 5) \div 10

\* order_args of _submit_trailing_stop.  The first test is 'atr is not None
\* and signal_type', the second 'if trail_price': a trail_price of 0.0
\* takes the else branch, where trail_percent is still None
StopOrder(sig, id, qty) ==
  LET by_atr == sig.atr # NULL /\ sig.signal_type # NoType
      trail_price == IF by_atr THEN Round2(TrailMultiplier(sig.signal_type), sig.atr)
                     ELSE NULL
      trail_percent == IF by_atr THEN NULL ELSE TRAIL_PERCENT_DEFAULT
      use_price == trail_price # NULL /\ trail_price # 0
  IN  [symbol |-> sig.symbol, qty |-> qty, side |-> "sell", type |-> "trailing_stop",
       status |-> "new",
       trail_price |-> IF use_price THEN trail_price ELSE NULL,
       trail_percent |-> IF use_price THEN NULL ELSE trail_percent,
       signal |-> id]

\* mutant of MonitorBranch: a rejected order is left alone
MonitorBranchIgnoresRejected(order_status) ==
  IF order_status = "filled" THEN "filled"
  ELSE IF order_status \in {"canceled", "expired"} THEN "failed"
  ELSE "none"

\* mutant of MonitorBranch: an expired order is left alone
MonitorBranchIgnoresExpired(order_status) ==
  IF order_status = "filled" THEN "filled"
  ELSE IF order_status \in {"canceled", "rejected"} THEN "failed"
  ELSE "none"

\* mutant of MonitorBranch: a partial fill is taken for a fill
MonitorBranchPartial(order_status) ==
  IF order_status \in {"filled", "partially_filled"} THEN "filled"
  ELSE IF order_status \in {"canceled", "rejected", "expired"} THEN "failed"
  ELSE "none"

\* process_submitted_signals: the branch taken for an order status
MonitorBranch(order_status) ==
  IF order_status = "filled" THEN "filled"
  ELSE IF order_status \in {"canceled", "rejected", "expired"} THEN "failed"
  ELSE "none"

\* mutant of StopLoopExhausted: one attempt too many
StopLoopExhaustedLate(attempt) == ~ (attempt <= max_retries)

\* _submit_trailing_stop: the retry loop is over after a failed attempt
StopLoopExhausted(attempt) == ~ (attempt < max_retries)

\* time.sleep(300) of a halted cycle, in seconds
HaltedSleep == 300
\* smart_sleep(5) while a signal is SUBMITTED, in seconds
MonitorPulse == 5

\* mutant of ExecutorSleep: the cadence also while a signal is SUBMITTED
ExecutorSleepCadence(submitted, mode, t) == get_sleep_seconds(mode, t)

\* run(): the sleep that ends a cycle, submitted being whether the COUNT of
\* SUBMITTED rows is positive
ExecutorSleep(submitted, mode, t) ==
  IF submitted THEN MonitorPulse ELSE get_sleep_seconds(mode, t)

\* mutant of RunHalts: run() does not look at the breaker
RunHaltsNever(tripped) == FALSE

\* run(): if self.circuit_breaker_tripped
RunHalts(tripped) == tripped

\* run(): the breaker is tripped, the cycle logs FATAL and sleeps
ExecutorHalted ==
  /\ UNCHANGED idle_vars
  /\ UNCHANGED settled
  /\ ex_pc = "idle"
  /\ RunHalts(circuit_breaker_tripped)
  /\ ev' = NoCall
  /\ ex_sleep' = HaltedSleep
  /\ UNCHANGED << now, trade_signals, executed_trades, system_logs, orders,
                  failure_count, circuit_breaker_tripped, api_connected, ex_pc,
                  ex_rows, ex_attempt, stop_submits, stop_slept >>

\* run() -> process_sized_signals: the SELECT of the SIZED rows
ProcessSizedBegin ==
  /\ UNCHANGED idle_vars
  /\ UNCHANGED settled
  /\ ex_pc = "idle"
  /\ ~ RunHalts(circuit_breaker_tripped)
  /\ ex_rows' \in Orderings(SelectSized)
  /\ ex_pc' = "sized"
  /\ ev' = NoCall
  /\ ex_sleep' = 0
  /\ UNCHANGED << now, trade_signals, executed_trades, system_logs, orders,
                  failure_count, circuit_breaker_tripped, api_connected,
                  ex_attempt, stop_submits, stop_slept >>

\* process_sized_signals: the loop body for the next fetched row
\* mutant of MarkFailed: the trip does not spare the row
MarkFailedAlways(id, tripped) == SetStatus(id, "FAILED")

\* process_sized_signals, no order returned: FAILED unless the breaker is
\* tripped
MarkFailed(id, tripped) ==
  IF ~ tripped THEN SetStatus(id, "FAILED") ELSE trade_signals

SubmitBuy ==
  /\ UNCHANGED idle_vars
  /\ UNCHANGED settled
  /\ ex_pc = "sized"
  /\ ex_rows # << >>
  /\ \E reply \in BrokerReplies :
       LET id == Head(ex_rows)
           sig == trade_signals[id]
           out == SafeApiCall(reply, failure_count, circuit_breaker_tripped)
       IN  /\ ev' = Call("submit_buy", id, out.made, IF out.made THEN reply ELSE NoReply)
           /\ failure_count' = out.failure_count
           /\ circuit_breaker_tripped' = out.circuit_breaker_tripped
           /\ IF out.ok
              THEN /\ orders' = Append(orders, BuyOrder(sig, id))
                   /\ trade_signals' = MarkSubmitted(id, Len(orders) + 1)
              ELSE /\ orders' = orders
                   /\ trade_signals' = MarkFailed(id, out.circuit_breaker_tripped)
  /\ ex_rows' = Tail(ex_rows)
  /\ UNCHANGED << now, executed_trades, system_logs, api_connected, ex_pc,
                  ex_attempt, stop_submits, stop_slept, ex_sleep >>

\* run() -> process_submitted_signals: the SELECT of the SUBMITTED rows
ProcessSubmittedBegin ==
  /\ UNCHANGED idle_vars
  /\ UNCHANGED settled
  /\ ex_pc = "sized"
  /\ ex_rows = << >>
  /\ IF circuit_breaker_tripped
     THEN ex_rows' = << >>
     ELSE ex_rows' \in Orderings(SelectSubmitted)
  /\ ex_pc' = "submitted"
  /\ ev' = NoCall
  /\ UNCHANGED << now, trade_signals, executed_trades, system_logs, orders,
                  failure_count, circuit_breaker_tripped, api_connected,
                  ex_attempt, stop_submits, stop_slept, ex_sleep >>

\* the row _log_trade inserts for a filled order
TradeRow(sig, id, order) ==
  [symbol |-> sig.symbol, price |-> FillPrice, qty |-> order.qty, side |-> "buy",
   signal_type |-> sig.signal_type, signal |-> id]

\* mutant of LogTrade: the row is inserted twice
LogTradeTwice(sig, id, order) ==
  Append(Append(executed_trades, TradeRow(sig, id, order)), TradeRow(sig, id, order))

\* _log_trade: INSERT INTO executed_trades and commit
LogTrade(sig, id, order) == Append(executed_trades, TradeRow(sig, id, order))

\* process_submitted_signals: the loop body for the next fetched row, up to
\* the entry of _submit_trailing_stop
GetOrder ==
  /\ UNCHANGED idle_vars
  /\ UNCHANGED settled
  /\ ex_pc = "submitted"
  /\ ex_rows # << >>
  /\ LET id == Head(ex_rows)
         sig == trade_signals[id]
     IN  IF sig.order_id = NULL
         THEN /\ trade_signals' = SetStatus(id, "FAILED")
              /\ ev' = NoCall
              /\ ex_rows' = Tail(ex_rows)
              /\ UNCHANGED << executed_trades, failure_count, circuit_breaker_tripped,
                              ex_pc, ex_attempt >>
         ELSE \E reply \in BrokerReplies :
                LET out == SafeApiCall(reply, failure_count, circuit_breaker_tripped)
                    order == orders[sig.order_id]
                    branch == IF out.ok THEN MonitorBranch(order.status) ELSE "none"
                IN  /\ ev' = Call("get_order", id, out.made,
                                  IF out.made THEN reply ELSE NoReply)
                    /\ failure_count' = out.failure_count
                    /\ circuit_breaker_tripped' = out.circuit_breaker_tripped
                    /\ IF branch = "filled"
                       THEN /\ executed_trades' = LogTrade(sig, id, order)
                            /\ ex_pc' = "stop"
                            /\ ex_attempt' = 1
                            /\ UNCHANGED << trade_signals, ex_rows >>
                       ELSE /\ trade_signals' =
                                 IF branch = "failed"
                                 THEN SetStatus(id, "FAILED")
                                 ELSE trade_signals
                            /\ ex_rows' = Tail(ex_rows)
                            /\ UNCHANGED << executed_trades, ex_pc, ex_attempt >>
  /\ UNCHANGED << now, system_logs, orders, api_connected, stop_submits, stop_slept,
                  ex_sleep >>

\* time.sleep(3) of the retry loop, in seconds
StopRetrySleep == 3

\* mutant of StopRetryPauses: a pause after every failed attempt
StopRetryPausesAlways(attempt) == TRUE

\* if attempt < max_retries: time.sleep(3)
StopRetryPauses(attempt) == attempt < max_retries

\* _submit_trailing_stop: one attempt of the retry loop and, after the last
\* one, the update that follows the loop
StopAttempt ==
  /\ UNCHANGED idle_vars
  /\ UNCHANGED settled
  /\ ex_pc = "stop"
  /\ \E reply \in BrokerReplies :
       LET id == Head(ex_rows)
           sig == trade_signals[id]
           qty == orders[sig.order_id].qty
           out == SafeApiCall(reply, failure_count, circuit_breaker_tripped)
       IN  /\ ev' = Call("submit_stop", id, out.made, IF out.made THEN reply ELSE NoReply)
           /\ failure_count' = out.failure_count
           /\ circuit_breaker_tripped' = out.circuit_breaker_tripped
           /\ stop_submits' = IF out.made THEN [stop_submits EXCEPT ![id] = @ + 1]
                              ELSE stop_submits
           /\ stop_slept' = IF ~ out.ok /\ StopRetryPauses(ex_attempt)
                            THEN [stop_slept EXCEPT ![id] = @ + StopRetrySleep]
                            ELSE stop_slept
           /\ IF out.ok
              THEN /\ orders' = Append(orders, StopOrder(sig, id, qty))
                   /\ trade_signals' = SetStatus(id, "EXECUTED")
                   /\ ex_pc' = "submitted"
                   /\ ex_rows' = Tail(ex_rows)
                   /\ ex_attempt' = 0
                   /\ UNCHANGED system_logs
              ELSE IF StopLoopExhausted(ex_attempt)
              THEN /\ trade_signals' = SetStatus(id, "EXECUTED_NO_STOP")
                   /\ system_logs' = Append(system_logs, [level |-> "CRITICAL", id |-> id])
                   /\ ex_pc' = "submitted"
                   /\ ex_rows' = Tail(ex_rows)
                   /\ ex_attempt' = 0
                   /\ orders' = orders
              ELSE /\ ex_attempt' = ex_attempt + 1
                   /\ UNCHANGED << trade_signals, system_logs, orders, ex_pc, ex_rows >>
  /\ UNCHANGED << now, executed_trades, api_connected, ex_sleep >>

\* run(): both passes are over, the cycle sleeps
CycleEnd ==
  /\ UNCHANGED idle_vars
  /\ settled' = TRUE
  /\ ex_pc = "submitted"
  /\ ex_rows = << >>
  /\ ex_pc' = "idle"
  /\ ev' = NoCall
  /\ ex_sleep' = ExecutorSleep(SelectSubmitted # {}, sleep_mode, ny_time)
  /\ UNCHANGED << now, trade_signals, executed_trades, system_logs, orders,
                  failure_count, circuit_breaker_tripped, api_connected, ex_rows,
                  ex_attempt, stop_submits, stop_slept >>

\* signal types a SUBMITTED row may carry: those of the strategy, the 'BUY'
\* of the older strategies, and none
StopSignalTypes == SignalTypes \cup {"BUY", NoType}
\* atr of a SUBMITTED row in cents: none, 0.00, 2.00
StopAtrValues == {NULL, 0, 200}
StopQuantities == {1, 6}

\* the monitor pass has fetched one SUBMITTED row whose buy order is filled
StopInit ==
  /\ now = 0
  /\ \E ty \in StopSignalTypes, atr \in StopAtrValues, qty \in StopQuantities :
       /\ trade_signals = << [symbol |-> "AAPL", timestamp |-> 0, signal_type |-> ty,
                              status |-> "SUBMITTED", size |-> qty, order_id |-> 1,
                              atr |-> atr] >>
       /\ orders = << [BuyOrder(trade_signals[1], 1) EXCEPT !.status = "filled"] >>
  /\ executed_trades = << >>
  /\ system_logs = << >>
  /\ failure_count \in 0..(BreakerThreshold - 1)
  /\ circuit_breaker_tripped = FALSE
  /\ api_connected = TRUE
  /\ ex_pc = "submitted"
  /\ ex_rows = << 1 >>
  /\ ex_attempt = 0
  /\ stop_submits = << 0 >>
  /\ stop_slept = << 0 >>
  /\ ex_sleep = 0
  /\ ev = NoCall
  /\ settled = FALSE
  /\ SleepIdle
  /\ ConnIdle
  /\ RmIdle
  /\ CandleIdle
  /\ StratIdle
  /\ TaIdle
  /\ FcIdle

StopNext ==
  \/ GetOrder
  \/ StopAttempt
  \/ CycleEnd

StopSpec == StopInit /\ [][StopNext]_vars

Next ==
  \/ Tick
  \/ StrategyEntry
  \/ StrategyExit
  \/ ProcessPendingSignals
  \/ BrokerOrderUpdate
  \/ ExecutorHalted
  \/ ProcessSizedBegin
  \/ SubmitBuy
  \/ ProcessSubmittedBegin
  \/ GetOrder
  \/ StopAttempt
  \/ CycleEnd

Spec == Init /\ [][Next]_vars

\* a worker asks for its cadence under some mode at some clock reading
CadenceInit ==
  /\ StoreInit
  /\ ConnIdle
  /\ RmIdle
  /\ CandleIdle
  /\ StratIdle
  /\ TaIdle
  /\ FcIdle
  /\ sleep_mode \in SleepModes
  /\ ny_time \in NyTimes
  /\ sleep_seconds = 0
  /\ slept = 0
  /\ sl_pc = "idle"

\* sleep_sec = get_sleep_seconds()
GetSleepSeconds ==
  /\ sl_pc = "idle"
  /\ sleep_seconds' = get_sleep_seconds(sleep_mode, ny_time)
  /\ sl_pc' = "cadence"
  /\ UNCHANGED << beside_sleep, sleep_mode, ny_time, slept >>

CadenceNext == GetSleepSeconds

CadenceSpec == CadenceInit /\ [][CadenceNext]_vars

\* candle timeframes in minutes, and the offsets of the harvester (0), of the
\* indicator engine and the forecaster (20) and of the strategy (40)
CandleIntervals == {1, 5, 15}
CandleOffsets == {0, 20, 40}

\* America/New_York is a whole number of hours from UTC and the days of the
\* epoch are whole: Monday 1970-01-05 00:00 EST is 4 days and 5 hours
EpochMonday == 4 * 86400 + 5 * 3600

\* datetime.now().timestamp() at the clock reading t, in milliseconds
Timestamp(t) == (EpochMonday + t.weekday * 86400) * 1000 + Millis(t)

\* mutant of get_sleep_time_to_next_candle: the offset is not added
get_sleep_time_to_next_candle_mark(interval, offset, mode, t) ==
  LET status == get_market_status(mode, t)
      interval_seconds == interval * 60
      elapsed == Timestamp(t) % (interval_seconds * 1000)
      remaining == interval_seconds * 1000 - elapsed
  IN  IF ~ status.is_open THEN status.sleep_seconds
      ELSE remaining \div 1000

\* get_sleep_time_to_next_candle(interval_minutes, offset_seconds) under the
\* stored mode at the clock reading t; int() drops the fraction
get_sleep_time_to_next_candle(interval, offset, mode, t) ==
  LET status == get_market_status(mode, t)
      interval_seconds == interval * 60
      elapsed == Timestamp(t) % (interval_seconds * 1000)
      remaining == interval_seconds * 1000 - elapsed
      sleep_time == remaining + offset * 1000
  IN  IF ~ status.is_open THEN status.sleep_seconds
      ELSE sleep_time \div 1000

\* a worker asks for the sleep to the next candle, for some timeframe and
\* offset, under some mode at some clock reading
CandleInit ==
  /\ StoreInit
  /\ ConnIdle
  /\ RmIdle
  /\ StratIdle
  /\ TaIdle
  /\ FcIdle
  /\ sleep_mode \in SleepModes
  /\ ny_time \in NyTimes
  /\ interval_minutes \in CandleIntervals
  /\ offset_seconds \in CandleOffsets
  /\ sleep_seconds = 0
  /\ slept = 0
  /\ sl_pc = "idle"

\* sleep_sec = get_sleep_time_to_next_candle(interval_minutes, offset_seconds)
GetSleepTimeToNextCandle ==
  /\ sl_pc = "idle"
  /\ sleep_seconds' =
       get_sleep_time_to_next_candle(interval_minutes, offset_seconds, sleep_mode,
                                     ny_time)
  /\ sl_pc' = "candle"
  /\ UNCHANGED << beside_sleep, sleep_mode, ny_time, slept >>

CandleNext == GetSleepTimeToNextCandle

CandleSpec == CandleInit /\ [][CandleNext]_vars

\* the sleeps the workers ask for: the executor's 5 s pulse, the harvester's
\* 60 s, and the cadences with the seconds next to the active one
SleepRequests ==
  {0, 1, 5, 60, SLEEP_ACTIVE - 1, SLEEP_ACTIVE, SLEEP_ACTIVE + 1, SLEEP_ACTIVE + 20,
   SLEEP_PASSIVE}

\* mutant of ForceAwakeInterrupts: a sleep of SLEEP_ACTIVE is interrupted too
ForceAwakeInterruptsActive(mode, seconds) ==
  mode = "FORCE_AWAKE" /\ seconds >= SLEEP_ACTIVE

\* smart_sleep: the test made at every check
ForceAwakeInterrupts(mode, seconds) ==
  mode = "FORCE_AWAKE" /\ seconds > SLEEP_ACTIVE

\* a worker is about to sleep, the mode is any of the three
SmartSleepInit ==
  /\ StoreInit
  /\ ConnIdle
  /\ RmIdle
  /\ CandleIdle
  /\ StratIdle
  /\ TaIdle
  /\ FcIdle
  /\ sleep_mode \in SleepModes
  /\ ny_time = [weekday |-> 0, second |-> 0, millisecond |-> 0]
  /\ sleep_seconds = 0
  /\ slept = 0
  /\ sl_pc = "idle"

\* smart_sleep(seconds) is called; every caller passes a whole number, which
\* int() leaves as it is
SmartSleepBegin ==
  /\ sl_pc = "idle"
  /\ \E seconds \in SleepRequests : sleep_seconds' = seconds
  /\ slept' = 0
  /\ sl_pc' = "sleeping"
  /\ UNCHANGED << beside_sleep, sleep_mode, ny_time >>

\* one iteration of the loop: read sleep_mode, return or time.sleep(1)
SmartSleepStep ==
  /\ sl_pc = "sleeping"
  /\ slept < sleep_seconds
  /\ IF ForceAwakeInterrupts(sleep_mode, sleep_seconds)
     THEN sl_pc' = "woken" /\ slept' = slept
     ELSE sl_pc' = "sleeping" /\ slept' = slept + 1
  /\ UNCHANGED << beside_sleep, sleep_mode, ny_time, sleep_seconds >>

\* range(seconds) is exhausted, smart_sleep returns
SmartSleepReturn ==
  /\ sl_pc = "sleeping"
  /\ slept = sleep_seconds
  /\ sl_pc' = "done"
  /\ UNCHANGED << beside_sleep, sleep_mode, ny_time, sleep_seconds, slept >>

\* dashboard: the operator selects another power mode
SetSleepMode ==
  /\ \E m \in SleepModes \ {sleep_mode} : sleep_mode' = m
  /\ UNCHANGED << beside_sleep, ny_time, sleep_seconds, slept, sl_pc >>

SmartSleepNext ==
  \/ SmartSleepBegin
  \/ SmartSleepStep
  \/ SmartSleepReturn
  \/ SetSleepMode

SmartSleepSpec == SmartSleepInit /\ [][SmartSleepNext]_vars

\* a worker loop under FORCE_AWAKE at some time of a day: the strategy's and
\* the executor's ask get_sleep_seconds, the harvester's (offset 0), the
\* indicator engine's and the forecaster's (offset 20) ask for the sleep to
\* the next 5m candle
WorkerSleepInit ==
  /\ StoreInit
  /\ ConnIdle
  /\ RmIdle
  /\ StratIdle
  /\ TaIdle
  /\ FcIdle
  /\ sleep_mode = "FORCE_AWAKE"
  /\ ny_time \in {t \in NyTimes : t.weekday = 0}
  /\ interval_minutes = 5
  /\ offset_seconds \in {0, 20}
  /\ sleep_seconds = 0
  /\ slept = 0
  /\ sl_pc = "idle"

\* smart_sleep(sleep_sec) with the duration just computed
SmartSleepComputed ==
  /\ sl_pc \in {"cadence", "candle"}
  /\ slept' = 0
  /\ sl_pc' = "sleeping"
  /\ UNCHANGED << beside_sleep, sleep_mode, ny_time, sleep_seconds >>

WorkerSleepNext ==
  \/ GetSleepSeconds
  \/ GetSleepTimeToNextCandle
  \/ SmartSleepComputed
  \/ SmartSleepStep
  \/ SmartSleepReturn

WorkerSleepSpec == WorkerSleepInit /\ [][WorkerSleepNext]_vars

\* -------------------------------------------------------------------------
\* Store connection (shared/db_utils.py) and the risk manager's use of it
\* -------------------------------------------------------------------------
db_max_retries == 3

ConnectOutcomes == {"ok", "OperationalError", "Error"}

\* mutant of DbRetryAllowed: one attempt more
DbRetryAllowedLate(attempt) == attempt <= db_max_retries

\* get_db_connection: after an OperationalError the loop goes on
DbRetryAllowed(attempt) == attempt < db_max_retries

\* process_pending_signals calls get_db_connection: attempt 1 is due
GetDbConnection ==
  /\ db_pc = "idle"
  /\ db_pc' = "connecting"
  /\ db_attempt' = 1
  /\ db_err' = "none"
  /\ UNCHANGED << store_vars, beside_conn >>

\* one psycopg2.connect of the loop and the handler of what it raised
DbConnect ==
  /\ db_pc = "connecting"
  /\ \E outcome \in ConnectOutcomes :
       /\ db_err' = outcome
       /\ IF outcome = "ok"
            THEN db_pc' = "connected" /\ db_attempt' = db_attempt
          ELSE IF outcome = "OperationalError" /\ DbRetryAllowed(db_attempt)
            THEN db_pc' = "connecting" /\ db_attempt' = db_attempt + 1
          ELSE db_pc' = "failed" /\ db_attempt' = db_attempt
  /\ UNCHANGED << store_vars, beside_conn >>

\* process_pending_signals with a connection: the cycle, then conn.close()
RmCycleConnected ==
  /\ db_pc = "connected"
  /\ IF SelectPending # {}
     THEN ProcessPendingSignalsStore
     ELSE UNCHANGED store_vars
  /\ db_pc' = "idle"
  /\ UNCHANGED << db_attempt, db_err, beside_conn >>

\* process_pending_signals without one: if not conn: return
RmCycleSkipped ==
  /\ db_pc = "failed"
  /\ db_pc' = "idle"
  /\ UNCHANGED << db_attempt, db_err, store_vars, beside_conn >>

\* the risk manager opening a connection per cycle, beside the clock and
\* the strategy
ConnectNext ==
  \/ Tick
  \/ StrategyEntry
  \/ StrategyExit
  \/ GetDbConnection
  \/ DbConnect
  \/ RmCycleConnected
  \/ RmCycleSkipped

ConnectSpec == Init /\ [][ConnectNext]_vars

\* -------------------------------------------------------------------------
\* Strategy engine: the entry tiers (strategy/trend_following.py)
\* -------------------------------------------------------------------------
\* shared/config.py
KINGS_LIST == {"AAPL", "MSFT", "GOOGL", "AMZN", "NVDA", "TSLA", "META"}

\* a candidate of KINGS_LIST and one outside it
TierSymbols == {"AAPL", "WMT"}

\* no signal type: signal_type = None
NoSignal == "none"

\* the candidate rows looked at: prices in dollars, ensemble_pct_change in
\* tenths of a percent, every input possibly NULL and on both sides of
\* every threshold
Candidates ==
  [symbol : TierSymbols, timestamp : {0}, close : {NULL, 100}, volume : {NULL, 1000},
   sma_200 : {NULL, 90, 100, 110}, rsi_14 : {NULL, 29, 30, 35, 36, 54, 55},
   vwap : {NULL, 99, 100}, atr_14 : {NULL, 200}, volume_sma_20 : {NULL, 999, 1000},
   ensemble_pct_change : {NULL, 3, 4, 5, 6}]

\* None in [close, volume, sma_200, rsi, vwap, atr, vol_sma, pred_pct]
HasMissing(row) ==
  NULL \in {row.close, row.volume, row.sma_200, row.rsi_14, row.vwap, row.atr_14,
            row.volume_sma_20, row.ensemble_pct_change}

Tier1(row) ==
  /\ row.ensemble_pct_change > 3
  /\ row.volume > row.volume_sma_20
  /\ row.close > row.vwap

Tier2(row) ==
  /\ row.symbol \in KINGS_LIST
  /\ row.close < row.sma_200
  /\ row.rsi_14 < 30
  /\ row.ensemble_pct_change > 5

Tier3(row, regime) ==
  /\ regime = "BULL"
  /\ row.close > row.sma_200
  /\ 35 < row.rsi_14 /\ row.rsi_14 < 55
  /\ row.ensemble_pct_change > 5
  /\ row.volume > row.volume_sma_20

\* mutant of EvaluateTiers: the king dip is tried before the scalp
EvaluateTiersDeepFirst(row, regime) ==
  IF Tier2(row) THEN "DEEP_VALUE_BUY"
  ELSE IF Tier1(row) THEN "VWAP_SCALP"
  ELSE IF Tier3(row, regime) THEN "TREND_BUY"
  ELSE NoSignal

\* run_strategy: the if / elif / elif over the tiers
EvaluateTiers(row, regime) ==
  IF Tier1(row) THEN "VWAP_SCALP"
  ELSE IF Tier2(row) THEN "DEEP_VALUE_BUY"
  ELSE IF Tier3(row, regime) THEN "TREND_BUY"
  ELSE NoSignal

\* run_strategy: what the loop body inserts for a candidate row
CandidateSignal(row, regime) ==
  IF HasMissing(row) THEN NoSignal
  ELSE IF SignalExists(row.symbol, row.timestamp) THEN NoSignal
  ELSE EvaluateTiers(row, regime)

\* a strategy cycle has fetched one candidate row and the macro regime
TierInit ==
  /\ StoreInit
  /\ api_connected
  /\ SleepIdle
  /\ ConnIdle
  /\ RmIdle
  /\ CandleIdle
  /\ TaIdle
  /\ FcIdle
  /\ candidate \in Candidates
  /\ macro_regime \in {"BULL", "BEAR"}
  /\ emitted = NoSignal
  /\ st_pc = "fetched"
  /\ positions = << >>
  /\ pos_next = 0

\* run_strategy: the loop body for the candidate row
EvaluateCandidate ==
  /\ st_pc = "fetched"
  /\ LET ty == CandidateSignal(candidate, macro_regime)
     IN  /\ emitted' = ty
         /\ IF ty # NoSignal
            THEN InsertSignal(NewSignal(candidate.symbol, candidate.timestamp, ty,
                                        NULL, candidate.atr_14))
            ELSE UNCHANGED << trade_signals, stop_submits, stop_slept >>
  /\ st_pc' = "done"
  /\ settled' = FALSE
  /\ ev' = NoCall
  /\ UNCHANGED << now, executed_trades, system_logs, orders, failure_count,
                  circuit_breaker_tripped, api_connected, ex_pc, ex_rows,
                  ex_attempt, ex_sleep >>
  /\ UNCHANGED << candidate, macro_regime, positions, pos_next, beside_strat >>

\* the next cycle finds the same row among the candidates of the last hour
NextStrategyCycle ==
  /\ st_pc = "done"
  /\ st_pc' = "fetched"
  /\ UNCHANGED << store_vars, candidate, macro_regime, emitted, positions, pos_next,
                  beside_strat >>

TierNext ==
  \/ EvaluateCandidate
  \/ NextStrategyCycle

TierSpec == TierInit /\ [][TierNext]_vars

\* -------------------------------------------------------------------------
\* Strategy engine: the exit matrix (strategy/trend_following.py)
\* -------------------------------------------------------------------------
MaxPositions == 2

\* the symbol of the k-th open position
PositionSymbol(k) == IF k = 1 THEN "AAPL" ELSE "MSFT"

\* what a position and the latest row of its symbol can be: unrealized_plpc
\* in thousandths (plpc_defined: float() accepts it), has_row: the query
\* returns a row, prices in dollars, ensemble_pct_change in tenths of a
\* percent
PositionInputs ==
  [plpc_defined : BOOLEAN, unrealized_plpc : {-20, 0, 10, 20}, has_row : {TRUE},
   close : {100}, sma_50 : {90, 110}, rsi_14 : {0, 39, 40},
   ensemble_pct_change : {-6, -5, -4, 0}]
     \cup
  [plpc_defined : {TRUE}, unrealized_plpc : {20}, has_row : {FALSE},
   close : {100}, sma_50 : {90}, rsi_14 : {39}, ensemble_pct_change : {-6}]

\* Python's truth value of a number or None
Truthy(x) == x # NULL /\ x # 0

\* evaluate_exits: the if / elif over the two tiers
ExitSignal(pos) ==
  IF pos.unrealized_plpc > 10
    THEN IF \/ pos.ensemble_pct_change < -4
            \/ Truthy(pos.sma_50) /\ pos.close < pos.sma_50
         THEN "TAKE_PROFIT_EXIT" ELSE NoSignal
  ELSE IF pos.unrealized_plpc < 0
    THEN IF pos.ensemble_pct_change < -5 /\ Truthy(pos.rsi_14) /\ pos.rsi_14 < 40
         THEN "PANIC_EXIT" ELSE NoSignal
  ELSE NoSignal

\* evaluate_exits: what the loop body inserts for the k-th position
PositionSignal(k) ==
  LET pos == positions[k]
  IN  IF ~ pos.plpc_defined THEN NoSignal
      ELSE IF ~ pos.has_row THEN NoSignal
      ELSE IF PendingExitExists(PositionSymbol(k)) THEN NoSignal
      ELSE ExitSignal(pos)

\* evaluate_exits has the broker's positions and is at the first of them
ExitInit ==
  /\ StoreInit
  /\ api_connected
  /\ SleepIdle
  /\ ConnIdle
  /\ RmIdle
  /\ CandleIdle
  /\ TaIdle
  /\ FcIdle
  /\ candidate = [symbol |-> "AAPL", timestamp |-> 0, close |-> NULL, volume |-> NULL,
                  sma_200 |-> NULL, rsi_14 |-> NULL, vwap |-> NULL, atr_14 |-> NULL,
                  volume_sma_20 |-> NULL, ensemble_pct_change |-> NULL]
  /\ macro_regime = "BULL"
  /\ emitted = NoSignal
  /\ st_pc = "exits"
  /\ positions \in [1..MaxPositions -> PositionInputs]
  /\ pos_next = 1

\* evaluate_exits: the loop body for the next position
EvaluatePosition ==
  /\ st_pc = "exits"
  /\ pos_next <= Len(positions)
  /\ LET ty == PositionSignal(pos_next)
     IN  /\ emitted' = ty
         /\ IF ty # NoSignal
            THEN InsertSignal(NewSignal(PositionSymbol(pos_next), now, ty, 0, NULL))
            ELSE UNCHANGED << trade_signals, stop_submits, stop_slept >>
  /\ pos_next' = pos_next + 1
  /\ settled' = FALSE
  /\ ev' = NoCall
  /\ UNCHANGED << now, executed_trades, system_logs, orders, failure_count,
                  circuit_breaker_tripped, api_connected, ex_pc, ex_rows,
                  ex_attempt, ex_sleep >>
  /\ UNCHANGED << candidate, macro_regime, st_pc, positions, beside_strat >>

\* evaluate_exits returns after the last position
ExitsDone ==
  /\ st_pc = "exits"
  /\ pos_next > Len(positions)
  /\ st_pc' = "done"
  /\ UNCHANGED << store_vars, candidate, macro_regime, emitted, positions, pos_next,
                  beside_strat >>

\* the next cycle finds the same positions and the same latest rows
NextExitCycle ==
  /\ st_pc = "done"
  /\ st_pc' = "exits"
  /\ pos_next' = 1
  /\ UNCHANGED << store_vars, candidate, macro_regime, emitted, positions, beside_strat >>

ExitNext ==
  \/ EvaluatePosition
  \/ ExitsDone
  \/ NextExitCycle

ExitSpec == ExitInit /\ [][ExitNext]_vars

\* -------------------------------------------------------------------------
\* Indicator engine (processor/ta_calculator.py)
\* -------------------------------------------------------------------------
\* list(set(SYMBOLS + ['SPY'])), two of them
TaSymbols == << "AAPL", "MSFT" >>

\* bars of a window that precede the modelled ones: their sma_50 is NaN
HistoryBars == 49
\* if df.empty or len(df) < 50
MinWindow == 50
\* the date of the bars of the history
HistoryDate == 1
MaxBars == 2
MaxDate == 2

\* the harvester appends a 5m bar of the same or of a later date
HarvestBar ==
  /\ \E sym \in DOMAIN ta_bars, d \in 1..MaxDate :
       /\ Len(ta_bars[sym]) < MaxBars
       /\ d >= (IF ta_bars[sym] = << >> THEN HistoryDate
                ELSE ta_bars[sym][Len(ta_bars[sym])])
       /\ ta_bars' = [ta_bars EXCEPT ![sym] = Append(@, d)]
  /\ UNCHANGED << technical_indicators, ta_written, ta_processed, ta_next, ta_pc,
                  beside_ta >>

SetMax(S) == CHOOSE x \in S : \A y \in S : y <= x

\* latest_date = df.index.date.max()
LatestDate(sym) ==
  SetMax({HistoryDate} \cup {ta_bars[sym][k] : k \in DOMAIN ta_bars[sym]})

\* process_symbol: the rows returned, those of the latest date whose rsi_14
\* and sma_50 are not NaN; the empty set stands for None
ProcessSymbol(sym) ==
  IF HistoryBars + Len(ta_bars[sym]) < MinWindow THEN {}
  ELSE {[symbol |-> sym, bar |-> k, date |-> ta_bars[sym][k]] :
          k \in {j \in DOMAIN ta_bars[sym] : ta_bars[sym][j] = LatestDate(sym)}}

\* run(): the cycle begins
TaRunBegin ==
  /\ ta_pc = "idle"
  /\ ta_pc' = "running"
  /\ ta_next' = 1
  /\ ta_processed' = {}
  /\ ta_written' = {}
  /\ UNCHANGED << ta_bars, technical_indicators, beside_ta >>

\* run(): the loop body for the next symbol.  process_symbol catches what it
\* raises and returns None; an exception of executemany or commit leaves the
\* loop for the handler of run()
TaSymbolStep ==
  /\ ta_pc = "running"
  /\ ta_next <= Len(TaSymbols)
  /\ LET sym == TaSymbols[ta_next]
     IN  /\ ta_processed' = ta_processed \cup {sym}
         /\ \E outcome \in {"ok", "process_raises", "write_raises"} :
              LET rows == IF outcome = "process_raises" THEN {} ELSE ProcessSymbol(sym)
              IN  IF rows = {}
                    THEN /\ outcome # "write_raises"
                         /\ ta_written' = {}
                         /\ ta_next' = ta_next + 1
                         /\ UNCHANGED << technical_indicators, ta_pc >>
                  ELSE IF outcome = "write_raises"
                    THEN /\ ta_written' = {}
                         /\ ta_pc' = "done"
                         /\ UNCHANGED << technical_indicators, ta_next >>
                  ELSE /\ ta_written' = rows
                       /\ technical_indicators' = technical_indicators \cup rows
                       /\ ta_next' = ta_next + 1
                       /\ UNCHANGED ta_pc
  /\ UNCHANGED << ta_bars, beside_ta >>

\* run(): the loop is over
TaLoopEnd ==
  /\ ta_pc = "running"
  /\ ta_next > Len(TaSymbols)
  /\ ta_pc' = "done"
  /\ UNCHANGED << ta_bars, technical_indicators, ta_written, ta_processed, ta_next,
                  beside_ta >>

\* run() returns: close_connection, then the sleep to the next candle
TaRunEnd ==
  /\ ta_pc = "done"
  /\ ta_pc' = "idle"
  /\ UNCHANGED << ta_bars, technical_indicators, ta_written, ta_processed, ta_next,
                  beside_ta >>

TaNext ==
  \/ HarvestBar
  \/ TaRunBegin
  \/ TaSymbolStep
  \/ TaLoopEnd
  \/ TaRunEnd

TaSpec == Init /\ [][TaNext]_vars

\* -------------------------------------------------------------------------
\* Predictive engine (processor/predictive_engine.py)
\* -------------------------------------------------------------------------
\* for symbol in SYMBOLS, two of them
FcSymbols == << "AAPL", "MSFT" >>

\* if df.empty or len(df) < 10
MinContext == 10
MaxTail == 2

\* closes of market_data in cents, NULL where the column is null
ContextCloses == {NULL, 0, 100}
\* medians of the two pipelines at the sixth step, in cents
Predictions == {90, 110}

NullRun(n) == [k \in 1..n |-> NULL]

\* the windows of a symbol: none, or a run of bars without a close followed
\* by up to MaxTail bars; nine or ten rows at the longest
ContextWindows ==
  {<< >>} \cup
  {NullRun(n) \o t : n \in {MinContext - MaxTail - 1, MinContext - MaxTail},
                     t \in UNION {[1..m -> ContextCloses] : m \in 1..MaxTail}}

RECURSIVE ffill(_)
\* Series.ffill(): a null takes the last value before it
ffill(closes) ==
  IF Len(closes) <= 1 THEN closes
  ELSE LET front == ffill(SubSeq(closes, 1, Len(closes) - 1))
           last == closes[Len(closes)]
       IN  Append(front, IF last = NULL THEN front[Len(front)] ELSE last)

RECURSIVE bfill(_)
\* Series.bfill(): a null takes the first value after it
bfill(closes) ==
  IF Len(closes) <= 1 THEN closes
  ELSE LET back == bfill(Tail(closes))
       IN  << IF Head(closes) = NULL THEN back[1] ELSE Head(closes) >> \o back

\* fetch_context_data: the context of one symbol, << >> when it is skipped
Context(closes) ==
  IF Len(closes) < MinContext THEN << >>
  ELSE LET filled == bfill(ffill(closes))
       IN  IF \E k \in DOMAIN filled : filled[k] = NULL THEN << >> ELSE filled

\* valid_symbols
ValidSymbols == {sym \in DOMAIN market_closes : Context(market_closes[sym]) # << >>}

\* mutant of Weighted: the two weights exchanged
WeightedSwapped(p_large, p_small) == (3 * p_large) + (7 * p_small)

\* ensemble_price = (0.7 * p_large) + (0.3 * p_small), in tenths of a cent
Weighted(p_large, p_small) == (7 * p_large) + (3 * p_small)

\* ensemble_pct: the quotient ((ensemble_price - current_price) /
\* current_price) * 100 as numerator and denominator, 0.0 as 0/1
EnsemblePct(ensemble_x10, current_price) ==
  IF current_price = 0 THEN [num |-> 0, den |-> 1]
  ELSE [num |-> (ensemble_x10 - (10 * current_price)) * 100,
        den |-> 10 * current_price]

\* the tuple appended to results for one symbol
ResultRow(sym, p_small, p_large) ==
  LET prices == Context(market_closes[sym])
      current_price == prices[Len(prices)]
  IN  [symbol |-> sym,
       timestamp |-> Len(prices),
       current_price |-> current_price,
       small_predicted_price |-> p_small,
       large_predicted_price |-> p_large,
       ensemble_x10 |-> Weighted(p_large, p_small),
       ensemble_pct_change |-> EnsemblePct(Weighted(p_large, p_small), current_price)]

\* INSERT OR REPLACE: a row of the same symbol and timestamp is replaced
Upsert(table, rows) ==
  {old \in table : ~\E row \in rows : /\ row.symbol = old.symbol
                                        /\ row.timestamp = old.timestamp}
    \cup rows

ForecastInit ==
  /\ StoreInit
  /\ api_connected
  /\ SleepIdle
  /\ ConnIdle
  /\ RmIdle
  /\ CandleIdle
  /\ StratIdle
  /\ TaIdle
  /\ market_closes \in [{"AAPL", "MSFT"} -> ContextWindows]
  /\ ai_predictions = {}
  /\ fc_written = {}
  /\ fc_pc = "idle"

\* run_predictions: one inference cycle.  Without a connection, without a
\* context, or when a pipeline or the store raises, nothing is written
RunPredictions ==
  /\ fc_pc = "idle"
  /\ fc_pc' = "done"
  /\ \E outcome \in {"ok", "no_connection", "raises"} :
       IF outcome # "ok" \/ ValidSymbols = {}
         THEN /\ fc_written' = {}
              /\ UNCHANGED ai_predictions
       ELSE \E preds_small \in [ValidSymbols -> Predictions],
               preds_large \in [ValidSymbols -> Predictions] :
              LET results == {ResultRow(sym, preds_small[sym], preds_large[sym]) :
                                sym \in ValidSymbols}
              IN  /\ fc_written' = results
                  /\ ai_predictions' = Upsert(ai_predictions, results)
  /\ UNCHANGED << market_closes, beside_fc >>

\* the sleep to the next candle; the harvester has moved the window of a
\* symbol
NextForecastCycle ==
  /\ fc_pc = "done"
  /\ fc_pc' = "idle"
  /\ \E sym \in DOMAIN market_closes, closes \in ContextWindows :
       market_closes' = [market_closes EXCEPT ![sym] = closes]
  /\ UNCHANGED << ai_predictions, fc_written, beside_fc >>

ForecastNext ==
  \/ RunPredictions
  \/ NextForecastCycle

ForecastSpec == ForecastInit /\ [][ForecastNext]_vars

TypeOK ==
  /\ now \in ClockValues
  /\ Len(trade_signals) <= MaxSignals
  /\ \A i \in Ids : trade_signals[i].status \in Statuses
  /\ failure_count \in 0..BreakerThreshold
  /\ ex_pc \in {"idle", "sized", "submitted", "stop"}
  /\ ex_attempt \in 0..max_retries
  /\ Len(stop_slept) = Len(trade_signals)
  /\ ex_sleep \in 0..SLEEP_PASSIVE
  /\ settled \in BOOLEAN
  /\ sleep_mode \in SleepModes
  /\ ny_time \in [weekday : 0..6, second : 0..86399, millisecond : 0..999]
  /\ sleep_seconds \in 0..SLEEP_PASSIVE
  /\ slept \in 0..SLEEP_PASSIVE
  /\ sl_pc \in {"idle", "cadence", "candle", "sleeping", "woken", "done"}
  /\ rm_pc \in {"idle", "expire", "size", "commit"}
  /\ rm_expired \subseteq Ids
  /\ \A u \in rm_updates : u[2] \in Ids
  /\ rm_tx \subseteq {"expired", "sized"}
  /\ interval_minutes \in CandleIntervals
  /\ offset_seconds \in CandleOffsets
  /\ db_pc \in {"idle", "connecting", "connected", "failed"}
  /\ db_attempt \in 0..db_max_retries
  /\ db_err \in ConnectOutcomes \cup {"none"}
  /\ macro_regime \in {"BULL", "BEAR"}
  /\ emitted \in EntryTypes \cup ExitTypes \cup {NoSignal}
  /\ st_pc \in {"idle", "fetched", "exits", "done"}
  /\ Len(positions) <= MaxPositions
  /\ pos_next \in 0..(MaxPositions + 1)
  /\ \A sym \in DOMAIN ta_bars : Len(ta_bars[sym]) <= MaxBars
  /\ ta_written \subseteq technical_indicators
  /\ ta_next \in 0..(Len(TaSymbols) + 1)
  /\ ta_pc \in {"idle", "running", "done"}
  /\ fc_written \subseteq ai_predictions
  /\ fc_pc \in {"idle", "done"}

\* =========================================================================
\* Properties
\* =========================================================================
Status(i) == trade_signals[i].status
StopOrdersFor(i) ==
  Cardinality({o \in DOMAIN orders : orders[o].signal = i /\ orders[o].type = "trailing_stop"})
OrdersFor(i) == {o \in DOMAIN orders : orders[o].signal = i}
TradesFor(i) == {t \in DOMAIN executed_trades : executed_trades[t].signal = i}
CriticalLogsFor(i) ==
  Cardinality({l \in DOMAIN system_logs :
                 system_logs[l].id = i /\ system_logs[l].level = "CRITICAL"})

LegalTransitions ==
  { <<"PENDING", "SIZED">>, <<"PENDING", "EXPIRED">>, <<"SIZED", "SUBMITTED">>,
    <<"SIZED", "FAILED">>, <<"SUBMITTED", "EXECUTED">>,
    <<"SUBMITTED", "EXECUTED_NO_STOP">>, <<"SUBMITTED", "FAILED">> }

\* C1: under any interleaving of the strategy, the risk manager and the
\* executor, no row disappears and every change of a row's status is one of
\* PENDING->SIZED, PENDING->EXPIRED, SIZED->SUBMITTED, SIZED->FAILED,
\* SIZED->EXECUTED (exit signals only), SUBMITTED->EXECUTED,
\* SUBMITTED->EXECUTED_NO_STOP, SUBMITTED->FAILED; so nothing goes backwards
\* and nothing leaves EXECUTED, EXECUTED_NO_STOP, FAILED or EXPIRED.
C1_LegalTransitions ==
  [][/\ Len(trade_signals') >= Len(trade_signals)
     /\ \A i \in Ids :
          Status(i) # trade_signals'[i].status =>
            \/ << Status(i), trade_signals'[i].status >> \in LegalTransitions
            \/ /\ Status(i) = "SIZED"
               /\ trade_signals'[i].status = "EXECUTED"
               /\ IsExitType(trade_signals[i].signal_type)]_vars

\* one row went all the way to EXECUTED while another one was expired
C1_Witness ==
  \E i, j \in Ids : Status(i) = "EXECUTED" /\ Status(j) = "EXPIRED"

\* C2: once circuit_breaker_tripped is true it is never false again.
C2_BreakerStaysTripped ==
  [][circuit_breaker_tripped => circuit_breaker_tripped']_vars

\* the breaker tripped on failures, the cycle it tripped in is over and a
\* SIZED row is still waiting
C2_Witness ==
  /\ api_connected
  /\ circuit_breaker_tripped
  /\ ex_pc = "idle"
  /\ \E i \in Ids : Status(i) = "SIZED"

\* C3: failure_count changes in two ways only: an exception the executor
\* classifies as critical adds exactly 1, a successful broker call sets it to
\* 0; an exception it classifies as not critical, a call skipped because the
\* breaker is tripped, and every step that is no broker call leave it as it
\* is.
C3_FailureCounter ==
  [][IF ev'.made /\ ev'.reply.ok THEN failure_count' = 0
     ELSE IF ev'.made /\ IsCritical(ev'.reply) THEN failure_count' = failure_count + 1
     ELSE failure_count' = failure_count]_vars

\* after two critical failures an exception that is not critical has left
\* the counter at 2
C3_Witness ==
  /\ failure_count = 2
  /\ ev.made
  /\ ~ ev.reply.ok
  /\ ~ IsCritical(ev.reply)

\* C4: after a successful start the breaker is tripped exactly when
\* failure_count has reached 3, and the step that trips it is the broker call
\* (of any kind, for any signal) whose critical failure takes the counter
\* from 2 to 3.
C4_TripsAtThree ==
  /\ [](api_connected =>
          /\ failure_count <= BreakerThreshold
          /\ (circuit_breaker_tripped <=> failure_count >= BreakerThreshold))
  /\ [][(~ circuit_breaker_tripped /\ circuit_breaker_tripped') =>
          /\ ev'.made
          /\ IsCritical(ev'.reply)
          /\ failure_count = BreakerThreshold - 1
          /\ failure_count' = BreakerThreshold]_vars

\* the breaker tripped on a get_order call after a submission for another
\* signal had failed
C4_Witness ==
  /\ api_connected
  /\ circuit_breaker_tripped
  /\ ev.call = "get_order"
  /\ ev.made
  /\ \E i \in Ids : i # ev.id /\ Status(i) = "FAILED" /\ trade_signals[i].order_id = NULL

\* C5: while the breaker is tripped no step calls the broker: no broker call
\* is made and the broker receives no order, also for the rows left in the
\* running pass and for the attempts left in a running stop retry loop.
C5_NoCallAfterTrip ==
  [][circuit_breaker_tripped => (~ ev'.made /\ Len(orders') = Len(orders))]_vars

\* the breaker tripped inside the stop retry loop of one signal and the
\* get_order of the next row of the same pass was skipped
C5_Witness ==
  /\ api_connected
  /\ circuit_breaker_tripped
  /\ ev.call = "get_order"
  /\ ~ ev.made
  /\ \E j \in Ids : j # ev.id /\ Status(j) = "EXECUTED_NO_STOP"

\* C6: for a SIZED entry signal handled by the entry pass, a successful
\* market buy moves the row to SUBMITTED with the id of the order the broker
\* has just accepted for it, in the same step; a failed submission that
\* leaves the breaker untripped moves the row to FAILED.
C6_EntrySubmission ==
  [][(/\ ev'.call = "submit_buy"
      /\ ev'.made
      /\ ~ IsExitType(trade_signals[ev'.id].signal_type)) =>
       IF ev'.reply.ok
       THEN /\ Status(ev'.id) = "SIZED"
            /\ trade_signals'[ev'.id].status = "SUBMITTED"
            /\ Len(orders') = Len(orders) + 1
            /\ trade_signals'[ev'.id].order_id = Len(orders')
            /\ orders'[Len(orders')].signal = ev'.id
            /\ orders'[Len(orders')].side = "buy"
            /\ orders'[Len(orders')].qty = trade_signals[ev'.id].size
       ELSE ~ circuit_breaker_tripped' =>
              /\ trade_signals'[ev'.id].status = "FAILED"
              /\ trade_signals'[ev'.id].order_id = NULL]_vars

\* a submission for an entry signal has just failed with the breaker
\* untripped while another entry signal holds its order id
C6_Witness ==
  /\ ev.call = "submit_buy"
  /\ ev.made
  /\ ~ ev.reply.ok
  /\ ~ circuit_breaker_tripped
  /\ ~ IsExitType(trade_signals[ev.id].signal_type)
  /\ Status(ev.id) = "FAILED"
  /\ \E j \in Ids : /\ ~ IsExitType(trade_signals[j].signal_type)
                    /\ Status(j) = "SUBMITTED"
                    /\ trade_signals[j].order_id # NULL

\* C7: a SIZED exit signal (TAKE_PROFIT_EXIT, PANIC_EXIT) leaves SIZED only
\* for EXECUTED, in the step in which the broker accepts a market sell for it;
\* it is never SUBMITTED and no order sent to the broker for it is a buy.
C7_ExitSignalsAreSold ==
  /\ [][\A i \in Ids :
          (/\ IsExitType(trade_signals[i].signal_type)
           /\ Status(i) = "SIZED"
           /\ trade_signals'[i].status # "SIZED") =>
            /\ trade_signals'[i].status = "EXECUTED"
            /\ Len(orders') = Len(orders) + 1
            /\ orders'[Len(orders')].signal = i
            /\ orders'[Len(orders')].side = "sell"]_vars
  /\ [](\A i \in Ids :
          IsExitType(trade_signals[i].signal_type) =>
            /\ Status(i) # "SUBMITTED"
            /\ \A o \in OrdersFor(i) : orders[o].side = "sell")

\* C8: the monitor pass acts on the order status get_order returns: filled
\* appends exactly one executed trade for the signal and enters the stop
\* attachment for it; canceled, rejected or expired sets the row to FAILED;
\* any other status, a failed get_order or a skipped one changes no row of
\* trade_signals or executed_trades.
C8_MonitorByOrderStatus ==
  [][ev'.call = "get_order" =>
       LET i == ev'.id
           st == orders[trade_signals[i].order_id].status
           answered == ev'.made /\ ev'.reply.ok
       IN  IF answered /\ st = "filled"
           THEN /\ Len(executed_trades') = Len(executed_trades) + 1
                /\ executed_trades'[Len(executed_trades')].signal = i
                /\ executed_trades'[Len(executed_trades')].side = "buy"
                /\ trade_signals' = trade_signals
                /\ ex_pc' = "stop"
                /\ Head(ex_rows') = i
           ELSE IF answered /\ st \in {"canceled", "rejected", "expired"}
           THEN /\ trade_signals' = [trade_signals EXCEPT ![i].status = "FAILED"]
                /\ executed_trades' = executed_trades
           ELSE /\ trade_signals' = trade_signals
                /\ executed_trades' = executed_trades]_vars

\* get_order has just answered partially_filled for one signal, which is
\* still SUBMITTED, after a fill was recorded for another one
C8_Witness ==
  /\ ev.call = "get_order"
  /\ ev.made
  /\ ev.reply.ok
  /\ Status(ev.id) = "SUBMITTED"
  /\ orders[trade_signals[ev.id].order_id].status = "partially_filled"
  /\ \E j \in Ids : j # ev.id /\ TradesFor(j) # {}

\* C9: after a fill at most 3 trailing stops are submitted for the signal and
\* at most one is accepted; the row is EXECUTED exactly with an accepted
\* stop, EXECUTED_NO_STOP exactly with none and one CRITICAL log, and no
\* other row has such a log; a row with a recorded fill is SUBMITTED only
\* while the stop attachment for it is running.
C9_StopAttachment ==
  \A i \in Ids :
    /\ stop_submits[i] <= max_retries
    /\ StopOrdersFor(i) <= 1
    /\ Status(i) = "EXECUTED" => (StopOrdersFor(i) = 1 /\ CriticalLogsFor(i) = 0)
    /\ Status(i) = "EXECUTED_NO_STOP" => (StopOrdersFor(i) = 0 /\ CriticalLogsFor(i) = 1)
    /\ Status(i) # "EXECUTED_NO_STOP" => CriticalLogsFor(i) = 0
    /\ StopOrdersFor(i) = 1 => Status(i) = "EXECUTED"
    /\ (TradesFor(i) # {} /\ Status(i) = "SUBMITTED") =>
         (ex_pc = "stop" /\ Head(ex_rows) = i)
    /\ (TradesFor(i) # {} /\ Status(i) # "SUBMITTED") =>
         Status(i) \in {"EXECUTED", "EXECUTED_NO_STOP"}

\* three stop submissions failed for one signal, now EXECUTED_NO_STOP, and
\* another signal got its stop at the second attempt
C9_Witness ==
  \E i, j \in Ids :
    /\ Status(i) = "EXECUTED_NO_STOP"
    /\ stop_submits[i] = 3
    /\ Status(j) = "EXECUTED"
    /\ stop_submits[j] = 2

\* C10: a risk manager cycle sets every PENDING row (entry or exit) whose
\* age now - timestamp exceeds max_signal_age_minutes to EXPIRED and leaves
\* its size alone, and expires no PENDING row of a smaller or equal age; an
\* EXPIRED row stays EXPIRED, and no order is ever sent and no fill recorded
\* for it.
C10_StaleExpired ==
  /\ [][ev'.call = "process_pending_signals" =>
          \A i \in Ids :
            Status(i) = "PENDING" =>
              IF now - trade_signals[i].timestamp > max_signal_age_minutes
              THEN /\ trade_signals'[i].status = "EXPIRED"
                   /\ trade_signals'[i].size = trade_signals[i].size
              ELSE trade_signals'[i].status # "EXPIRED"]_vars
  /\ [][\A i \in Ids : Status(i) = "EXPIRED" => trade_signals'[i].status = "EXPIRED"]_vars
  /\ [](\A i \in Ids :
          Status(i) = "EXPIRED" =>
            /\ trade_signals[i].order_id = NULL
            /\ OrdersFor(i) = {}
            /\ TradesFor(i) = {})

\* one cycle has expired an entry signal of age 61 and sized a signal that
\* was not older than 60 minutes
C10_Witness ==
  /\ ev.call = "process_pending_signals"
  /\ \E i, j \in Ids :
       /\ Status(i) = "EXPIRED"
       /\ ~ IsExitType(trade_signals[i].signal_type)
       /\ trade_signals[i].size = NULL
       /\ now - trade_signals[i].timestamp = max_signal_age_minutes + 1
       /\ Status(j) = "SIZED"
       /\ now - trade_signals[j].timestamp <= max_signal_age_minutes

\* -------------------------------------------------------------------------
\* Risk manager: sizing
\* -------------------------------------------------------------------------
\* account_size * risk_pct, the value of one position in dollars
PositionValue == (account_size * risk_pct) \div 10000
Age(i) == now - trade_signals[i].timestamp
IsRmStep(e) == e.call = "process_pending_signals"

\* C11: a risk manager cycle that finds the latest 5m close c for the symbol
\* of a PENDING entry signal that is not stale sets the row to SIZED with
\* size = floor(account_size * risk_pct / c), that is the size s > 0 with
\* s * c <= account_size * risk_pct < (s + 1) * c, exactly when that number
\* is positive (0 < c <= account_size * risk_pct); with c <= 0, with a larger
\* c or with no close at all the row stays PENDING and keeps its size.
C11_EntrySizing ==
  [][IsRmStep(ev') =>
       \A i \in Ids :
         (/\ Status(i) = "PENDING"
          /\ ~ IsExitType(trade_signals[i].signal_type)
          /\ Age(i) <= max_signal_age_minutes) =>
           LET c == ev'.close[trade_signals[i].symbol]
               row == trade_signals'[i]
           IN  IF c # NULL /\ 0 < c /\ c <= PositionValue
               THEN /\ row.status = "SIZED"
                    /\ row.size > 0
                    /\ row.size * c <= PositionValue
                    /\ PositionValue < (row.size + 1) * c
               ELSE /\ row.status = "PENDING"
                    /\ row.size = trade_signals[i].size]_vars

\* the last cycle found a close above the position value and left an entry
\* signal PENDING, after an earlier cycle had sized another one with 6 shares
\* at a close of 150
C11_Witness ==
  /\ IsRmStep(ev)
  /\ \E i, j \in Ids :
       /\ ~ IsExitType(trade_signals[i].signal_type)
       /\ Status(i) = "PENDING"
       /\ trade_signals[i].size = NULL
       /\ ev.close[trade_signals[i].symbol] = 1500
       /\ ~ IsExitType(trade_signals[j].signal_type)
       /\ Status(j) \in {"SIZED", "SUBMITTED"}
       /\ trade_signals[j].size = 6

\* C12: a risk manager cycle sets every PENDING exit signal (signal_type
\* contains EXIT) that is not stale to SIZED with size 0, whatever latest
\* close its query finds for the symbol, also when it finds none.
C12_ExitSizing ==
  [][IsRmStep(ev') =>
       \A i \in Ids :
         (/\ Status(i) = "PENDING"
          /\ IsExitType(trade_signals[i].signal_type)
          /\ Age(i) <= max_signal_age_minutes) =>
           /\ trade_signals'[i].status = "SIZED"
           /\ trade_signals'[i].size = 0]_vars

\* a cycle that found no close for the symbol has approved an exit signal
\* and left an entry signal of the same symbol PENDING
C12_Witness ==
  /\ IsRmStep(ev)
  /\ \E i, j \in Ids :
       /\ IsExitType(trade_signals[i].signal_type)
       /\ Status(i) = "SIZED"
       /\ trade_signals[i].size = 0
       /\ ev.close[trade_signals[i].symbol] = NULL
       /\ ~ IsExitType(trade_signals[j].signal_type)
       /\ trade_signals[j].symbol = trade_signals[i].symbol
       /\ Status(j) = "PENDING"

\* -------------------------------------------------------------------------
\* Strategy engine: duplicates
\* -------------------------------------------------------------------------
Inserted == Len(trade_signals') > Len(trade_signals)
NewRow == trade_signals'[Len(trade_signals')]

\* C13: there is at most one entry signal per (symbol, timestamp), and a
\* strategy step that inserts an entry signal inserts one row, for a
\* (symbol, timestamp) that had no row before, of any type and in any status.
C13_OneEntryPerCandle ==
  /\ [](\A i, j \in Ids :
          (/\ i # j
           /\ ~ IsExitType(trade_signals[i].signal_type)
           /\ ~ IsExitType(trade_signals[j].signal_type)
           /\ trade_signals[i].symbol = trade_signals[j].symbol) =>
            trade_signals[i].timestamp # trade_signals[j].timestamp)
  /\ [][(Inserted /\ ~ IsExitType(NewRow.signal_type)) =>
          /\ Len(trade_signals') = Len(trade_signals) + 1
          /\ \A i \in Ids : trade_signals'[i] = trade_signals[i]
          /\ ~ \E i \in Ids : /\ trade_signals[i].symbol = NewRow.symbol
                              /\ trade_signals[i].timestamp = NewRow.timestamp]_vars

\* the candle of minute 0 has a row that is no longer PENDING and is still
\* in the lookback window of the strategy, and the candle of minute 60 has
\* got its own row
C13_Witness ==
  \E i, j \in Ids :
    /\ ~ IsExitType(trade_signals[i].signal_type)
    /\ ~ IsExitType(trade_signals[j].signal_type)
    /\ trade_signals[i].symbol = trade_signals[j].symbol
    /\ trade_signals[i].timestamp = 0
    /\ Status(i) # "PENDING"
    /\ trade_signals[j].timestamp = 60
    /\ now - trade_signals[i].timestamp <= LookbackMinutes

\* C14: the exit evaluator inserts an exit signal only for a symbol that has
\* no PENDING exit signal, so that a symbol never has two of them; the step
\* inserts exactly one row, PENDING, with size 0 and the current wall-clock
\* time as its timestamp.
C14_OnePendingExit ==
  /\ [](\A i, j \in Ids :
          (/\ Status(i) = "PENDING" /\ IsExitType(trade_signals[i].signal_type)
           /\ Status(j) = "PENDING" /\ IsExitType(trade_signals[j].signal_type)
           /\ trade_signals[i].symbol = trade_signals[j].symbol) => i = j)
  /\ [][(Inserted /\ IsExitType(NewRow.signal_type)) =>
          /\ Len(trade_signals') = Len(trade_signals) + 1
          /\ \A i \in Ids : trade_signals'[i] = trade_signals[i]
          /\ ~ \E i \in Ids : /\ trade_signals[i].symbol = NewRow.symbol
                              /\ Status(i) = "PENDING"
                              /\ IsExitType(trade_signals[i].signal_type)
          /\ NewRow.status = "PENDING"
          /\ NewRow.size = 0
          /\ NewRow.timestamp = now
          /\ now' = now]_vars

\* a second exit signal was inserted for a symbol at minute 60, after its
\* first one, of minute 0, had left PENDING
C14_Witness ==
  \E i, j \in Ids :
    /\ IsExitType(trade_signals[i].signal_type)
    /\ IsExitType(trade_signals[j].signal_type)
    /\ trade_signals[i].symbol = trade_signals[j].symbol
    /\ trade_signals[i].timestamp = 0
    /\ Status(i) # "PENDING"
    /\ Status(j) = "PENDING"
    /\ trade_signals[j].size = 0
    /\ trade_signals[j].timestamp = 60
    /\ now = 60

\* -------------------------------------------------------------------------
\* Re-running a cycle
\* -------------------------------------------------------------------------
\* a step of an executor cycle that started with nothing changed since the
\* executor's previous cycle ended
RerunStep == settled /\ settled'
TradeLogged == Len(executed_trades') > Len(executed_trades)

TerminalStatuses == {"EXECUTED", "EXECUTED_NO_STOP", "FAILED"}
ClosedOrderStatuses == {"filled", "canceled", "rejected", "expired"}

\* C16: every SUBMITTED signal carries the id of a market buy order the
\* broker accepted for it; the next status of a SUBMITTED signal is EXECUTED,
\* EXECUTED_NO_STOP or FAILED; and when the monitor pass has had the broker's
\* answer for the order and leaves the signal SUBMITTED without starting the
\* stop attachment, the order is still open (not filled, canceled, rejected
\* or expired).
C16_SubmittedHasOpenOrder ==
  /\ [](\A i \in Ids :
          Status(i) = "SUBMITTED" =>
            /\ trade_signals[i].order_id \in DOMAIN orders
            /\ orders[trade_signals[i].order_id].signal = i
            /\ orders[trade_signals[i].order_id].type = "market"
            /\ orders[trade_signals[i].order_id].symbol = trade_signals[i].symbol)
  /\ [][\A i \in Ids :
          (Status(i) = "SUBMITTED" /\ trade_signals'[i].status # "SUBMITTED") =>
            trade_signals'[i].status \in TerminalStatuses]_vars
  /\ [][(/\ ev'.call = "get_order"
          /\ ev'.made
          /\ ev'.reply.ok
          /\ trade_signals'[ev'.id].status = "SUBMITTED"
          /\ ex_pc' # "stop") =>
            orders[trade_signals[ev'.id].order_id].status \notin ClosedOrderStatuses]_vars

\* the broker has just answered that the order of a SUBMITTED signal is
\* still new, after another signal was set to FAILED for a dead order
C16_Witness ==
  /\ ev.call = "get_order"
  /\ ev.made
  /\ ev.reply.ok
  /\ Status(ev.id) = "SUBMITTED"
  /\ orders[trade_signals[ev.id].order_id].status = "new"
  /\ \E j \in Ids :
       /\ j # ev.id
       /\ Status(j) = "FAILED"
       /\ trade_signals[j].order_id \in DOMAIN orders
       /\ orders[trade_signals[j].order_id].status \in DeadOrderStatuses

\* -------------------------------------------------------------------------
\* Progress of PENDING signals
\* -------------------------------------------------------------------------
\* the risk manager's loop keeps running cycles and the clock keeps advancing
FairRiskSpec == Spec /\ WF_vars(Tick) /\ WF_vars(ProcessPendingSignals)

\* the row can outlive max_signal_age_minutes before the model's clock stops
CanAge(i) ==
  IF i \in Ids
    THEN trade_signals[i].timestamp + max_signal_age_minutes < MaxClock
    ELSE FALSE

\* row i exists and its status is one of S
HasStatus(i, S) == IF i \in Ids THEN Status(i) \in S ELSE FALSE

\* C17: with the risk manager running cycles and the clock advancing, every
\* PENDING signal eventually is SIZED or EXPIRED; a cycle leaves a row
\* PENDING only if it is an entry signal that is not stale and cannot be
\* sized (no latest close, or a size of 0), every other PENDING row is SIZED
\* or EXPIRED by the cycle, and a cycle at which the row is stale expires it.
C17_NoSignalStaysPending ==
  /\ \A i \in 1..MaxSignals :
       HasStatus(i, {"PENDING"}) /\ CanAge(i) ~>
         HasStatus(i, {"SIZED", "EXPIRED"})
  /\ [][IsRmStep(ev') =>
          \A i \in Ids :
            Status(i) = "PENDING" =>
              LET c == ev'.close[trade_signals[i].symbol]
              IN  IF trade_signals'[i].status = "PENDING"
                  THEN /\ ~ IsExitType(trade_signals[i].signal_type)
                       /\ Age(i) <= max_signal_age_minutes
                       /\ (c = NULL \/ c <= 0 \/ c > PositionValue)
                  ELSE trade_signals'[i].status \in {"SIZED", "EXPIRED"}]_vars

\* a cycle that found no close has expired an entry signal at age 61, which
\* no earlier cycle had sized
C17_Witness ==
  /\ IsRmStep(ev)
  /\ \E i \in Ids :
       /\ ~ IsExitType(trade_signals[i].signal_type)
       /\ Status(i) = "EXPIRED"
       /\ trade_signals[i].size = NULL
       /\ ev.close[trade_signals[i].symbol] = NULL
       /\ Age(i) = max_signal_age_minutes + 1

\* -------------------------------------------------------------------------
\* Progress of SIZED signals
\* -------------------------------------------------------------------------
\* one step of the executor's loop while the breaker is closed
ExecutorStep ==
  \/ ProcessSizedBegin
  \/ SubmitBuy
  \/ ProcessSubmittedBegin
  \/ GetOrder
  \/ StopAttempt
  \/ CycleEnd

\* the broker answers the order query for row i
GetOrderAnswered(i) ==
  /\ GetOrder
  /\ ev'.call = "get_order"
  /\ ev'.id = i
  /\ ev'.reply.ok

\* the executor's loop keeps running, the broker brings every market order
\* to a terminal status and answers the query of every row again and again
\* the executor and the workers that feed it, at one instant of the clock
ExecutorNext ==
  \/ StrategyEntry
  \/ StrategyExit
  \/ ProcessPendingSignals
  \/ BrokerOrderUpdate
  \/ ExecutorHalted
  \/ ExecutorStep

\* clock readings of the executor's cycles: Monday noon, Monday 08:30:01,
\* Saturday noon
ExecutorClock ==
  {t \in NyTimes : /\ t.millisecond = 0
                   /\ \/ t.weekday \in {0, 5} /\ t.second = SecondOfDay(12, 0, 0)
                      \/ t.weekday = 0 /\ t.second = market_open - SLEEP_PASSIVE + 1}

\* the executor started with a client, under some sleep_mode at some reading
\* of the clock
ExecutorSleepInit ==
  /\ StoreInit
  /\ api_connected
  /\ sleep_mode \in SleepModes
  /\ ny_time \in ExecutorClock
  /\ sleep_seconds = 0
  /\ slept = 0
  /\ sl_pc = "idle"
  /\ ConnIdle
  /\ RmIdle
  /\ CandleIdle
  /\ StratIdle
  /\ TaIdle
  /\ FcIdle

ExecutorSleepSpec == ExecutorSleepInit /\ [][ExecutorNext]_vars

\* -------------------------------------------------------------------------
\* The executor when a store statement raises or the process stops
\* -------------------------------------------------------------------------
\* what ends the handling of a row after the broker accepted the call: the
\* UPDATE or its commit raises, or the process stops before the commit
Faults == {"store", "stop"}

\* the worker is started again: __init__ and _connect_api
ExecutorRestart ==
  /\ failure_count' = 0
  /\ circuit_breaker_tripped' = ConnectApi(api_connected)
  /\ ex_pc' = "idle"
  /\ ex_rows' = << >>
  /\ ex_attempt' = 0
  /\ ex_sleep' = 0

\* the except clause of a pass: the rows not yet handled are left for the
\* next cycle
PassAborted ==
  /\ failure_count' = SafeApiCall(OkReply, failure_count, FALSE).failure_count
  /\ ex_rows' = << >>
  /\ ex_attempt' = 0
  /\ UNCHANGED << circuit_breaker_tripped, ex_sleep >>

\* process_sized_signals: submit_order returns the order, the UPDATE to
\* SUBMITTED is not committed
SubmitBuyUncommitted ==
  /\ UNCHANGED idle_vars
  /\ UNCHANGED settled
  /\ ex_pc = "sized"
  /\ ex_rows # << >>
  /\ ~ circuit_breaker_tripped
  /\ Len(orders) < MaxOrders
  /\ LET id == Head(ex_rows)
     IN  /\ ev' = Call("submit_buy", id, TRUE, OkReply)
         /\ orders' = Append(orders, BuyOrder(trade_signals[id], id))
  /\ \E fault \in Faults :
       IF fault = "store" THEN PassAborted /\ UNCHANGED ex_pc
       ELSE ExecutorRestart
  /\ UNCHANGED << now, trade_signals, executed_trades, system_logs, api_connected,
                  stop_submits, stop_slept >>

\* process_submitted_signals: get_order reports the fill, the INSERT of
\* _log_trade raises and is logged, the trailing stop follows
GetOrderTradeNotLogged ==
  /\ UNCHANGED idle_vars
  /\ UNCHANGED settled
  /\ ex_pc = "submitted"
  /\ ex_rows # << >>
  /\ ~ circuit_breaker_tripped
  /\ LET id == Head(ex_rows)
         sig == trade_signals[id]
     IN  /\ sig.order_id # NULL
         /\ MonitorBranch(orders[sig.order_id].status) = "filled"
         /\ ev' = Call("get_order", id, TRUE, OkReply)
  /\ failure_count' = SafeApiCall(OkReply, failure_count, FALSE).failure_count
  /\ ex_pc' = "stop"
  /\ ex_attempt' = 1
  /\ UNCHANGED << now, trade_signals, executed_trades, system_logs, orders,
                  circuit_breaker_tripped, api_connected, ex_rows, stop_submits,
                  stop_slept, ex_sleep >>

\* _submit_trailing_stop: submit_order returns the stop order, the UPDATE to
\* EXECUTED is not committed
StopUncommitted ==
  /\ UNCHANGED idle_vars
  /\ UNCHANGED settled
  /\ ex_pc = "stop"
  /\ ~ circuit_breaker_tripped
  /\ Len(orders) < MaxOrders
  /\ LET id == Head(ex_rows)
         sig == trade_signals[id]
     IN  /\ ev' = Call("submit_stop", id, TRUE, OkReply)
         /\ orders' = Append(orders, StopOrder(sig, id, orders[sig.order_id].qty))
         /\ stop_submits' = [stop_submits EXCEPT ![id] = @ + 1]
  /\ \E fault \in Faults :
       IF fault = "store" THEN PassAborted /\ ex_pc' = "submitted"
       ELSE ExecutorRestart
  /\ UNCHANGED << now, trade_signals, executed_trades, system_logs, api_connected,
                  stop_slept >>

FaultNext ==
  \/ BrokerOrderUpdate
  \/ ExecutorHalted
  \/ ExecutorStep
  \/ SubmitBuyUncommitted
  \/ GetOrderTradeNotLogged
  \/ StopUncommitted

\* the executor started with a client; the risk manager has sized one entry
\* signal
FaultInit ==
  /\ now = 0
  /\ \E ty \in EmittedEntryTypes, atr \in AtrValues, close \in CloseValues :
       /\ close # NULL
       /\ calculate_position_size(close) > 0
       /\ trade_signals =
            << [NewSignal("AAPL", 0, ty, calculate_position_size(close), atr)
                  EXCEPT !.status = "SIZED"] >>
  /\ executed_trades = << >>
  /\ orders = << >>
  /\ system_logs = << >>
  /\ failure_count = 0
  /\ circuit_breaker_tripped = FALSE
  /\ api_connected = TRUE
  /\ ex_pc = "idle"
  /\ ex_rows = << >>
  /\ ex_attempt = 0
  /\ stop_submits = << 0 >>
  /\ stop_slept = << 0 >>
  /\ ex_sleep = 0
  /\ ev = NoCall
  /\ settled = FALSE
  /\ SleepIdle
  /\ ConnIdle
  /\ RmIdle
  /\ CandleIdle
  /\ StratIdle
  /\ TaIdle
  /\ FcIdle

FaultSpec == FaultInit /\ [][FaultNext]_vars

\* two entry signals are SIZED and earlier broker calls have failed
BreakerInit ==
  /\ now = max_signal_age_minutes
  /\ \E ty \in EmittedEntryTypes, atr \in AtrValues, close \in CloseValues :
       /\ close # NULL
       /\ calculate_position_size(close) > 0
       /\ trade_signals =
            [i \in 1..2 |->
               [NewSignal("AAPL", max_signal_age_minutes * (i - 1), ty,
                          calculate_position_size(close), atr)
                  EXCEPT !.status = "SIZED"]]
  /\ executed_trades = << >>
  /\ orders = << >>
  /\ system_logs = << >>
  /\ failure_count \in 0..(BreakerThreshold - 1)
  /\ circuit_breaker_tripped = FALSE
  /\ api_connected = TRUE
  /\ ex_pc = "idle"
  /\ ex_rows = << >>
  /\ ex_attempt = 0
  /\ stop_submits = << 0, 0 >>
  /\ stop_slept = << 0, 0 >>
  /\ ex_sleep = 0
  /\ ev = NoCall
  /\ settled = FALSE
  /\ SleepIdle
  /\ ConnIdle
  /\ RmIdle
  /\ CandleIdle
  /\ StratIdle
  /\ TaIdle
  /\ FcIdle

BreakerNext ==
  \/ BrokerOrderUpdate
  \/ ExecutorHalted
  \/ ExecutorStep

BreakerSpec == BreakerInit /\ [][BreakerNext]_vars

\* the risk manager's cycle in steps, while the clock advances and the
\* strategy inserts signals
BatchNext ==
  \/ Tick
  \/ StrategyEntry
  \/ StrategyExit
  \/ RmBegin
  \/ RmExpire
  \/ RmSize
  \/ RmCommit

BatchSpec == Init /\ [][BatchNext]_vars

FairExecutorSpec ==
  /\ Init
  /\ [][ExecutorNext]_vars
  /\ WF_vars(ExecutorStep)
  /\ WF_vars(BrokerOrderUpdate)
  /\ \A i \in 1..MaxSignals : SF_vars(GetOrderAnswered(i))

\* C18: if the breaker never trips, the broker eventually answers every
\* order query with a terminal order status and the executor's cycles are
\* scheduled fairly, every SIZED signal, entry or exit, eventually is
\* EXECUTED, EXECUTED_NO_STOP or FAILED.
C18_SizedTerminates ==
  ([] ~ circuit_breaker_tripped) =>
    \A i \in 1..MaxSignals :
      HasStatus(i, {"SIZED"}) ~> HasStatus(i, TerminalStatuses)

\* with the breaker closed, an exit signal has gone from SIZED to EXECUTED
\* and an entry signal has ended FAILED on a dead order
C18_Witness ==
  /\ ~ circuit_breaker_tripped
  /\ \E i, j \in Ids :
       /\ IsExitType(trade_signals[i].signal_type)
       /\ Status(i) = "EXECUTED"
       /\ ~ IsExitType(trade_signals[j].signal_type)
       /\ Status(j) = "FAILED"
       /\ trade_signals[j].order_id # NULL
       /\ orders[trade_signals[j].order_id].status \in DeadOrderStatuses

\* -------------------------------------------------------------------------
\* Cadence
\* -------------------------------------------------------------------------
\* the session of the exchange: Monday to Friday, 09:30:00 <= t < 16:00:00
InSession(t) ==
  /\ t.weekday \in 0..4
  /\ SecondOfDay(9, 30, 0) <= t.second
  /\ t.second < SecondOfDay(16, 0, 0)

\* t is before 09:30:00 on a weekday
BeforeOpen(t) == t.weekday \in 0..4 /\ t.second < SecondOfDay(9, 30, 0)

\* whole seconds from t to 09:30:00
SecondsUntilOpen(t) ==
  SecondOfDay(9, 30, 0) - t.second - (IF t.millisecond > 0 THEN 1 ELSE 0)

\* C19 as stated: 300 under FORCE_AWAKE and 3600 under FORCE_SLEEP at any
\* clock reading; under AUTO 300 if and only if the reading is in the
\* session, min(3600, seconds until 09:30) before 09:30 on a weekday, 3600
\* otherwise.
C19_CadenceIff ==
  sl_pc = "cadence" =>
    /\ sleep_mode = "FORCE_AWAKE" => sleep_seconds = 300
    /\ sleep_mode = "FORCE_SLEEP" => sleep_seconds = 3600
    /\ sleep_mode = "AUTO" =>
         /\ sleep_seconds = 300 <=> InSession(ny_time)
         /\ BeforeOpen(ny_time) =>
              sleep_seconds = Min(3600, SecondsUntilOpen(ny_time))
         /\ ~ InSession(ny_time) /\ ~ BeforeOpen(ny_time) => sleep_seconds = 3600

\* C19: 300 under FORCE_AWAKE and 3600 under FORCE_SLEEP at any clock
\* reading; under AUTO 300 in the session, min(3600, whole seconds until
\* 09:30) before 09:30 on a weekday, 3600 otherwise; outside the session the
\* result is 300 exactly when 300 whole seconds are left until 09:30.
C19_Cadence ==
  sl_pc = "cadence" =>
    /\ sleep_mode = "FORCE_AWAKE" => sleep_seconds = 300
    /\ sleep_mode = "FORCE_SLEEP" => sleep_seconds = 3600
    /\ sleep_mode = "AUTO" =>
         /\ InSession(ny_time) => sleep_seconds = 300
         /\ BeforeOpen(ny_time) =>
              sleep_seconds = Min(3600, SecondsUntilOpen(ny_time))
         /\ ~ InSession(ny_time) /\ ~ BeforeOpen(ny_time) => sleep_seconds = 3600
         /\ ~ InSession(ny_time) /\ sleep_seconds = 300 =>
              BeforeOpen(ny_time) /\ SecondsUntilOpen(ny_time) = 300

\* under AUTO the cadence asked for on a Monday at 09:25:00 is 300 although
\* the session has not begun
C19_Witness ==
  /\ sl_pc = "cadence"
  /\ sleep_mode = "AUTO"
  /\ ny_time = [weekday |-> 0, second |-> SecondOfDay(9, 25, 0), millisecond |-> 0]
  /\ sleep_seconds = 300

\* -------------------------------------------------------------------------
\* smart_sleep
\* -------------------------------------------------------------------------
\* a step of a running smart_sleep, as opposed to a change of the mode
IsSleepCheck == sl_pc = "sleeping" /\ (sl_pc' # "sleeping" \/ slept' # slept)

\* C20: smart_sleep(n) sleeps in increments of one second with one check of
\* sleep_mode before each; a check that finds FORCE_AWAKE while n > 300
\* returns without sleeping further; with n <= 300 it is never interrupted
\* and returns after n seconds of sleep whatever the mode is or becomes; it
\* never sleeps more than n seconds and makes at most n checks.
C20_SmartSleep ==
  /\ [](slept <= sleep_seconds)
  /\ [](sl_pc = "done" => slept = sleep_seconds)
  /\ [](sl_pc = "woken" => sleep_seconds > 300 /\ slept < sleep_seconds)
  /\ [][IsSleepCheck =>
          IF slept = sleep_seconds
            THEN sl_pc' = "done" /\ slept' = slept
          ELSE IF sleep_mode = "FORCE_AWAKE" /\ sleep_seconds > 300
            THEN sl_pc' = "woken" /\ slept' = slept
          ELSE sl_pc' = "sleeping" /\ slept' = slept + 1]_vars
  /\ [][sleep_seconds' # sleep_seconds => sl_pc = "idle"]_vars

\* a sleep of 301 s was interrupted after 5 s, when the mode had become
\* FORCE_AWAKE
C20_Witness ==
  /\ sl_pc = "woken"
  /\ sleep_seconds = 301
  /\ slept = 5
  /\ sleep_mode = "FORCE_AWAKE"

\* -------------------------------------------------------------------------
\* Store connection
\* -------------------------------------------------------------------------
\* C21: get_db_connection makes at most 3 attempts; it returns the
\* connection of the first successful attempt and makes no attempt after
\* it; it retries after a transient (operational) error of attempt 1 or 2;
\* after the third consecutive transient failure it returns None; the risk
\* manager then ends its cycle and no row of any table has changed.
C21_ConnectionAttempts ==
  /\ [](db_attempt <= 3)
  /\ [](db_pc = "connected" => db_err = "ok")
  /\ [](db_pc = "failed" =>
          \/ db_err = "OperationalError" /\ db_attempt = 3
          \/ db_err = "Error")
  /\ [][DbConnect /\ db_err' = "ok" =>
          db_pc' = "connected" /\ db_attempt' = db_attempt]_vars
  /\ [][DbConnect /\ db_err' = "OperationalError" =>
          IF db_attempt < 3
          THEN db_pc' = "connecting" /\ db_attempt' = db_attempt + 1
          ELSE db_pc' = "failed"]_vars
  /\ [][db_attempt' > db_attempt =>
          \/ db_pc = "idle" /\ db_attempt' = 1
          \/ /\ db_pc = "connecting"
             /\ db_err' = "OperationalError"
             /\ db_attempt' = db_attempt + 1]_vars
  /\ [][db_pc = "failed" /\ db_pc' # "failed" =>
          /\ db_pc' = "idle"
          /\ UNCHANGED << trade_signals, executed_trades, system_logs, orders >>]_vars

\* the third attempt has failed while a stale PENDING signal waits to be
\* expired
C21_Witness ==
  /\ db_pc = "failed"
  /\ db_attempt = 3
  /\ db_err = "OperationalError"
  /\ \E i \in Ids : Status(i) = "PENDING" /\ Age(i) > max_signal_age_minutes

\* -------------------------------------------------------------------------
\* Ownership of rows
\* -------------------------------------------------------------------------
RowChanged(i) == trade_signals'[i] # trade_signals[i]
SameRows == Len(trade_signals') = Len(trade_signals)
StrategyStep == StrategyEntry \/ StrategyExit
ExecutorCycleStep == ExecutorStep \/ ExecutorHalted

\* C22: the strategy only appends rows, with status PENDING, and changes no
\* existing row; the risk manager changes only PENDING rows, to SIZED or
\* EXPIRED; the executor changes only SIZED or SUBMITTED rows and it alone
\* writes executed_trades; hence in every interleaving a PENDING row is
\* changed by the risk manager alone, and a row the executor has fetched
\* and not yet handled is changed by no other worker.
C22_Ownership ==
  /\ [][StrategyStep =>
          /\ Len(trade_signals') = Len(trade_signals) + 1
          /\ NewRow.status = "PENDING"
          /\ \A i \in Ids : ~ RowChanged(i)]_vars
  /\ [][ProcessPendingSignals =>
          /\ SameRows
          /\ \A i \in Ids :
               RowChanged(i) =>
                 /\ Status(i) = "PENDING"
                 /\ trade_signals'[i].status \in {"SIZED", "EXPIRED"}]_vars
  /\ [][ExecutorCycleStep =>
          /\ SameRows
          /\ \A i \in Ids :
               RowChanged(i) => Status(i) \in {"SIZED", "SUBMITTED"}]_vars
  /\ [][executed_trades' # executed_trades => ExecutorStep]_vars
  /\ [][~ ProcessPendingSignals =>
          \A i \in Ids : Status(i) = "PENDING" => ~ RowChanged(i)]_vars
  /\ [][~ ExecutorCycleStep =>
          \A k \in DOMAIN ex_rows : ~ RowChanged(ex_rows[k])]_vars

\* the risk manager has sized a row while the executor was between the
\* fetch of a SIZED row and its write to it
C22_Witness ==
  /\ IsRmStep(ev)
  /\ ex_pc = "sized"
  /\ ex_rows # << >>
  /\ \E i \in Ids :
       /\ Status(i) = "SIZED"
       /\ \A k \in DOMAIN ex_rows : ex_rows[k] # i

\* -------------------------------------------------------------------------
\* Entry tiers
\* -------------------------------------------------------------------------
\* the tiers as the specification lists them, pct in tenths of a percent
AllInputsPresent(row) ==
  /\ row.close # NULL /\ row.volume # NULL /\ row.sma_200 # NULL
  /\ row.rsi_14 # NULL /\ row.vwap # NULL /\ row.atr_14 # NULL
  /\ row.volume_sma_20 # NULL /\ row.ensemble_pct_change # NULL
IsVwapScalp(row) ==
  row.ensemble_pct_change > 3 /\ row.volume > row.volume_sma_20 /\ row.close > row.vwap
IsDeepValueBuy(row) ==
  /\ row.symbol \in {"AAPL", "MSFT", "GOOGL", "AMZN", "NVDA", "TSLA", "META"}
  /\ row.close < row.sma_200 /\ row.rsi_14 < 30 /\ row.ensemble_pct_change > 5
IsTrendBuy(row, regime) ==
  /\ regime = "BULL" /\ row.close > row.sma_200
  /\ row.rsi_14 > 35 /\ row.rsi_14 < 55
  /\ row.ensemble_pct_change > 5 /\ row.volume > row.volume_sma_20
FirstMatchingTier(row, regime) ==
  CASE IsVwapScalp(row) -> "VWAP_SCALP"
    [] ~ IsVwapScalp(row) /\ IsDeepValueBuy(row) -> "DEEP_VALUE_BUY"
    [] ~ IsVwapScalp(row) /\ ~ IsDeepValueBuy(row) /\ IsTrendBuy(row, regime) -> "TREND_BUY"
    [] OTHER -> "none"

\* C23: the evaluation of a candidate row with all inputs present and no
\* signal yet for its (symbol, timestamp) inserts exactly one row when a
\* tier matches: PENDING, of the first matching tier in the order
\* VWAP_SCALP, DEEP_VALUE_BUY, TREND_BUY, atr = atr_14, size and order_id
\* null; it inserts nothing when no tier matches, when an input is missing
\* or when the signal exists.
C23_FirstMatchingTier ==
  [][(st_pc = "fetched" /\ st_pc' = "done") =>
       IF /\ AllInputsPresent(candidate)
          /\ ~ \E i \in Ids : /\ trade_signals[i].symbol = candidate.symbol
                               /\ trade_signals[i].timestamp = candidate.timestamp
          /\ FirstMatchingTier(candidate, macro_regime) # "none"
       THEN /\ Len(trade_signals') = Len(trade_signals) + 1
            /\ \A i \in Ids : trade_signals'[i] = trade_signals[i]
            /\ NewRow = [symbol |-> candidate.symbol,
                         timestamp |-> candidate.timestamp,
                         signal_type |-> FirstMatchingTier(candidate, macro_regime),
                         status |-> "PENDING", size |-> NULL, order_id |-> NULL,
                         atr |-> candidate.atr_14]
       ELSE trade_signals' = trade_signals]_vars

\* a king's row that matches the scalp and the dip has been emitted as a
\* scalp, and the next cycle has emitted nothing for it
C23_Witness ==
  /\ st_pc = "done"
  /\ emitted = "none"
  /\ IsVwapScalp(candidate) /\ IsDeepValueBuy(candidate)
  /\ Len(trade_signals) = 1
  /\ trade_signals[1].signal_type = "VWAP_SCALP"

\* -------------------------------------------------------------------------
\* Exit matrix
\* -------------------------------------------------------------------------
\* the position being evaluated can be judged: its plpc is defined, its
\* symbol has a latest row and no PENDING exit
Judged(k) ==
  /\ positions[k].plpc_defined
  /\ positions[k].has_row
  /\ ~ PendingExitExists(PositionSymbol(k))

IsTakeProfit(pos) ==
  /\ pos.unrealized_plpc > 10
  /\ (pos.ensemble_pct_change < -4 \/ pos.close < pos.sma_50)

IsPanic(pos) ==
  /\ pos.unrealized_plpc < 0
  /\ pos.ensemble_pct_change < -5
  /\ pos.rsi_14 < 40

\* C24 as stated: for a position with a defined plpc the evaluator emits
\* TAKE_PROFIT_EXIT if and only if plpc > 0.01 and (pct < -0.4 or close <
\* sma_50), PANIC_EXIT if and only if plpc < 0 and pct < -0.5 and rsi_14 <
\* 40, and nothing otherwise; every position of the list is evaluated.
C24_ExitMatrix ==
  /\ [][(st_pc = "exits" /\ pos_next' = pos_next + 1 /\ Judged(pos_next)) =>
          /\ emitted' = "TAKE_PROFIT_EXIT" <=> IsTakeProfit(positions[pos_next])
          /\ emitted' = "PANIC_EXIT" <=> IsPanic(positions[pos_next])
          /\ emitted' \in {"TAKE_PROFIT_EXIT", "PANIC_EXIT", "none"}
          /\ Inserted <=> emitted' # "none"]_vars
  /\ [](st_pc = "done" => pos_next = Len(positions) + 1)

\* -------------------------------------------------------------------------
\* Indicator rows
\* -------------------------------------------------------------------------
\* the latest date among the bars of a symbol's window
MaxWindowDate(sym) ==
  CHOOSE d \in 1..MaxDate :
    /\ d = HistoryDate \/ \E k \in DOMAIN ta_bars[sym] : ta_bars[sym][k] = d
    /\ \A k \in DOMAIN ta_bars[sym] : ta_bars[sym][k] <= d

\* C25 as stated: every row written for a symbol in a cycle has the maximum
\* date of the symbol's window; the table changes only by rows of that
\* date; a failure while processing or writing one symbol leaves the
\* remaining symbols of the cycle to be processed, so that a cycle ends with
\* process_symbol called for every symbol.
C25_IndicatorRows ==
  /\ [][ta_written' # ta_written =>
          \A row \in ta_written' : row.date = MaxWindowDate(row.symbol)]_vars
  /\ [][technical_indicators' # technical_indicators =>
          /\ technical_indicators \subseteq technical_indicators'
          /\ \A row \in technical_indicators' \ technical_indicators :
               row.date = MaxWindowDate(row.symbol)]_vars
  /\ [](ta_pc = "done" => ta_processed = {TaSymbols[k] : k \in DOMAIN TaSymbols})

\* -------------------------------------------------------------------------
\* Forecast rows
\* -------------------------------------------------------------------------
\* the closing prices of a window that the engine can use: those that hold a
\* value after the forward and the backward fill
UsableCloses(closes) ==
  LET filled == bfill(ffill(closes))
  IN  Cardinality({k \in DOMAIN filled : filled[k] # NULL})

\* C26: in every row of ai_predictions the ensemble price is 0.7 times the
\* large plus 0.3 times the small prediction, and the percent change is
\* (ensemble - current_price) / current_price * 100, or 0 when the current
\* price is 0; a symbol with fewer than 10 usable closing prices gets no row
\* in the cycle.
C26_ForecastRows ==
  /\ \A row \in ai_predictions :
       /\ row.ensemble_x10 =
            (7 * row.large_predicted_price) + (3 * row.small_predicted_price)
       /\ IF row.current_price = 0
            THEN row.ensemble_pct_change.num = 0
          ELSE row.ensemble_pct_change.num * (10 * row.current_price) =
                 (row.ensemble_x10 - (10 * row.current_price)) * 100
                   * row.ensemble_pct_change.den
  /\ fc_pc = "done" =>
       \A sym \in DOMAIN market_closes :
         UsableCloses(market_closes[sym]) < 10 =>
           ~\E row \in fc_written : row.symbol = sym

\* a cycle has written a row for one symbol, whose current price comes from
\* a fill and whose predictions differ, and none for the other, which has
\* nine closes
C26_Witness ==
  /\ fc_pc = "done"
  /\ \E row \in fc_written :
       /\ row.large_predicted_price # row.small_predicted_price
       /\ row.current_price # 0
       /\ market_closes[row.symbol][Len(market_closes[row.symbol])] = NULL
  /\ \E sym \in DOMAIN market_closes :
       /\ UsableCloses(market_closes[sym]) = 9
       /\ ~\E row \in fc_written : row.symbol = sym
  /\ \E row \in ai_predictions : row.current_price = 0

\* -------------------------------------------------------------------------
\* Executor without a broker client
\* -------------------------------------------------------------------------
\* C27: when a credential variable is missing at startup or the client
\* cannot be constructed, the breaker is tripped before the first cycle and
\* stays so, and the executor never calls the broker and never changes a
\* signal: no order reaches the broker, no trade is logged, and the only
\* rows that change are PENDING rows, which the risk manager decides.
C27_NoClientNoTrading ==
  /\ [](~ api_connected => circuit_breaker_tripped)
  /\ [][~ api_connected =>
          /\ ~ ev'.made
          /\ orders' = orders
          /\ executed_trades' = executed_trades
          /\ ExecutorCycleStep => trade_signals' = trade_signals
          /\ \A i \in Ids : RowChanged(i) => Status(i) = "PENDING"]_vars

\* the executor started without a client; a signal was SIZED five minutes
\* ago or earlier, it is still SIZED and the broker holds no order
C27_Witness ==
  /\ ~ api_connected
  /\ ev = NoCall
  /\ ex_pc = "idle"
  /\ now >= 5
  /\ \E i \in Ids : Status(i) = "SIZED" /\ Age(i) >= 5
  /\ orders = << >>

\* -------------------------------------------------------------------------
\* Classification of broker errors
\* -------------------------------------------------------------------------
\* the HTTP status codes the breaker is meant to count
CriticalCodes == {401, 403, 500, 502, 503, 504}

\* C28 as stated: a failed broker call increments failure_count if and only
\* if the HTTP status code of the error is one of 401, 403, 500, 502, 503,
\* 504, whatever the text of the error contains.
C28_CriticalByCode ==
  [][(ev'.made /\ ~ ev'.reply.ok) =>
       /\ ev'.reply.code \in CriticalCodes => failure_count' = failure_count + 1
       /\ ev'.reply.code \notin CriticalCodes => failure_count' = failure_count]_vars

\* -------------------------------------------------------------------------
\* Pauses of the stop retry loop
\* -------------------------------------------------------------------------
\* C29 as stated: when the stop submission has failed on all three attempts
\* and the signal is EXECUTED_NO_STOP, the executor has made three pauses of
\* 3 seconds.
C29_ThreePauses ==
  \A i \in Ids :
    (Status(i) = "EXECUTED_NO_STOP" /\ stop_submits[i] = max_retries) =>
      stop_slept[i] = 3 * StopRetrySleep

\* C29, amended: a signal is EXECUTED_NO_STOP only after exactly two pauses
\* of 3 seconds, one after the first and one after the second failed
\* attempt and none after the third; no stop loop pauses more often.
C29_TwoPauses ==
  \A i \in Ids :
    /\ stop_slept[i] <= 2 * StopRetrySleep
    /\ Status(i) = "EXECUTED_NO_STOP" => stop_slept[i] = 2 * StopRetrySleep

\* three stop submissions reached the broker and failed without counting
\* for the breaker; the signal is EXECUTED_NO_STOP after 6 seconds of pauses
C29_Witness ==
  \E i \in Ids :
    /\ Status(i) = "EXECUTED_NO_STOP"
    /\ stop_submits[i] = max_retries
    /\ stop_slept[i] = 2 * StopRetrySleep
    /\ failure_count = 0
    /\ ~ circuit_breaker_tripped
    /\ CriticalLogsFor(i) = 1

\* -------------------------------------------------------------------------
\* Parameters of the protective stop
\* -------------------------------------------------------------------------
\* C30 as stated: a stop for a signal whose atr is known and whose
\* signal_type is VWAP_SCALP, DEEP_VALUE_BUY or TREND_BUY is submitted with
\* trail_price = round(m * atr, 2), m being 1.5, 2.0, 3.0, and without
\* trail_percent; every other stop is submitted with trail_percent = 2.0
\* and without trail_price.
C30_StopParameters ==
  \A o \in DOMAIN orders :
    orders[o].type = "trailing_stop" =>
      LET sig == trade_signals[orders[o].signal]
          m == CASE sig.signal_type = "VWAP_SCALP" -> 15
                 [] sig.signal_type = "DEEP_VALUE_BUY" -> 20
                 [] sig.signal_type = "TREND_BUY" -> 30
                 [] OTHER -> 0
      IN  IF sig.atr # NULL /\ sig.signal_type \in EntryTypes
            THEN /\ orders[o].trail_price = (m * sig.atr + 5) \div 10
                 /\ orders[o].trail_percent = NULL
          ELSE /\ orders[o].trail_percent = 20
               /\ orders[o].trail_price = NULL

\* -------------------------------------------------------------------------
\* The executor after the breaker has tripped
\* -------------------------------------------------------------------------
\* C31 as stated: from the moment the breaker is tripped the executor
\* changes no signal and inserts no ExecutedTrade: no step that ends with
\* the breaker tripped changes a row that is not PENDING or adds a trade.
C31_TrippedFreezes ==
  [][circuit_breaker_tripped' =>
       /\ executed_trades' = executed_trades
       /\ \A i \in Ids : Status(i) # "PENDING" =>
                            trade_signals'[i] = trade_signals[i]]_vars

\* C31, amended: a cycle that starts with the breaker tripped only sleeps
\* 300 seconds, and while the breaker is tripped no step changes a row that
\* is not PENDING (so SIZED and SUBMITTED rows keep status, size and order
\* id), adds a trade or places an order; the step that trips the breaker is
\* the only one that may still change a status, and only from SUBMITTED to
\* EXECUTED_NO_STOP for the signal whose third stop attempt tripped it.
C31_HaltedCycles ==
  /\ [][circuit_breaker_tripped =>
          /\ executed_trades' = executed_trades
          /\ Len(orders') = Len(orders)
          /\ \A i \in Ids : Status(i) # "PENDING" =>
                               trade_signals'[i] = trade_signals[i]]_vars
  /\ [][(circuit_breaker_tripped /\ ex_pc = "idle") =>
          /\ ex_pc' = "idle"
          /\ ex_sleep' # ex_sleep => ex_sleep' = HaltedSleep]_vars
  /\ [][(~ circuit_breaker_tripped /\ circuit_breaker_tripped') =>
          /\ executed_trades' = executed_trades
          /\ \A i \in Ids :
               trade_signals'[i] # trade_signals[i] =>
                 /\ Status(i) = "SUBMITTED"
                 /\ trade_signals'[i] =
                      [trade_signals[i] EXCEPT !.status = "EXECUTED_NO_STOP"]
                 /\ ev'.call = "submit_stop"
                 /\ ev'.id = i]_vars

\* the breaker tripped on failures, a halted cycle has slept 300 seconds,
\* and a SIZED and a SUBMITTED signal are left as they were
C31_Witness ==
  /\ api_connected
  /\ circuit_breaker_tripped
  /\ ex_sleep = HaltedSleep
  /\ \E i, j \in Ids :
       /\ Status(i) = "SIZED"
       /\ Status(j) = "SUBMITTED"
       /\ trade_signals[j].order_id # NULL

\* -------------------------------------------------------------------------
\* The sleep that ends an executor cycle
\* -------------------------------------------------------------------------
\* C32: a cycle that has run its two passes ends with a sleep of 5 seconds
\* if a signal is SUBMITTED at that moment, whatever the clock and
\* sleep_mode say, and with the sleep Cadence gives otherwise; in a cycle
\* the pass over the SIZED rows comes first and is finished before the pass
\* over the SUBMITTED rows begins, and no entry is processed after it.
C32_MonitoringPulse ==
  /\ [][(ex_pc = "submitted" /\ ex_pc' = "idle") =>
          IF \E i \in Ids : Status(i) = "SUBMITTED"
            THEN ex_sleep' = 5
          ELSE ex_sleep' = get_sleep_seconds(sleep_mode, ny_time)]_vars
  /\ [][(ex_pc = "idle" /\ ex_pc' # "idle") => ex_pc' = "sized"]_vars
  /\ [][(ex_pc = "sized" /\ ex_pc' # "sized") =>
          (ex_rows = << >> /\ ex_pc' = "submitted")]_vars
  /\ [][(ex_pc \in {"submitted", "stop"}) => (ex_pc' # "sized")]_vars

\* outside the session under FORCE_SLEEP a cycle has ended with the pulse of
\* 5 seconds, a signal being SUBMITTED
C32_Witness ==
  /\ sleep_mode = "FORCE_SLEEP"
  /\ ny_time.weekday = 5
  /\ ex_pc = "idle"
  /\ ex_sleep = 5
  /\ \E i \in Ids : Status(i) = "SUBMITTED"
  /\ \E j \in Ids : Status(j) = "EXECUTED"

\* -------------------------------------------------------------------------
\* One transaction per risk-manager cycle
\* -------------------------------------------------------------------------
\* C33: the rows of trade_signals change in one step only, the commit that
\* ends a risk-manager cycle, and that step makes every row of
\* expired_updates EXPIRED and every row of updates SIZED with its size;
\* while a cycle runs, and after a cycle in which a statement or the commit
\* failed, every row of its two lists is still PENDING for all readers.
C33_OneTransaction ==
  /\ [][(\E i \in Ids : trade_signals'[i] # trade_signals[i]) =>
          /\ rm_pc = "commit"
          /\ \A i \in rm_expired : trade_signals'[i].status = "EXPIRED"
          /\ \A u \in rm_updates : /\ trade_signals'[u[2]].status = "SIZED"
                                    /\ trade_signals'[u[2]].size = u[1]]_vars
  /\ []((rm_pc # "idle" \/ rm_tx = {}) =>
          \A i \in CycleIds : trade_signals[i].status = "PENDING")

\* a cycle has committed an expiry and a sizing together
C33_Witness ==
  /\ rm_pc = "idle"
  /\ rm_tx = {"expired", "sized"}
  /\ \E i \in rm_expired : trade_signals[i].status = "EXPIRED"
  /\ \E u \in rm_updates : trade_signals[u[2]].status = "SIZED"

\* -------------------------------------------------------------------------
\* Sleep to the next candle
\* -------------------------------------------------------------------------
\* C34 as stated: at every whole second, under every mode, the result added
\* to the current time falls on offset past a multiple of the interval, and
\* lies in (offset, interval + offset].
C34_AlignedAlways ==
  (sl_pc = "candle" /\ ny_time.millisecond = 0) =>
    LET interval == interval_minutes * 60
        t == Timestamp(ny_time) \div 1000
    IN  /\ (t + sleep_seconds) % interval = offset_seconds % interval
        /\ offset_seconds < sleep_seconds
        /\ sleep_seconds <= interval + offset_seconds

\* C34: at every whole second at which the market status is open (the
\* session under AUTO, any time under FORCE_AWAKE) the result added to the
\* current time falls on offset past a multiple of the interval and lies in
\* (offset, interval + offset]; when the status is not open the result is
\* the cadence of get_sleep_seconds, whatever the interval and the offset.
C34_AlignedWhenOpen ==
  sl_pc = "candle" =>
    LET interval == interval_minutes * 60
        t == Timestamp(ny_time) \div 1000
    IN  IF get_market_status(sleep_mode, ny_time).is_open
          THEN ny_time.millisecond = 0 =>
                 /\ (t + sleep_seconds) % interval = offset_seconds % interval
                 /\ offset_seconds < sleep_seconds
                 /\ sleep_seconds <= interval + offset_seconds
        ELSE sleep_seconds = get_sleep_seconds(sleep_mode, ny_time)

\* the indicator engine's call one second before a 5m mark of the session:
\* 21 seconds
C34_Witness ==
  /\ sl_pc = "candle"
  /\ sleep_mode = "AUTO"
  /\ ny_time = [weekday |-> 0, second |-> market_close - 1, millisecond |-> 0]
  /\ interval_minutes = 5
  /\ offset_seconds = 20
  /\ sleep_seconds = 21

\* -------------------------------------------------------------------------
\* Store faults and stops between the broker call and the commit
\* -------------------------------------------------------------------------
\* the market buy orders the broker received for signal i
BuyOrdersOf(i) ==
  {o \in DOMAIN orders : orders[o].side = "buy" /\ orders[o].signal = i}

\* the buy rows of executed_trades recorded for signal i
BuyTradesOf(i) ==
  {k \in DOMAIN executed_trades :
     executed_trades[k].side = "buy" /\ executed_trades[k].signal = i}

\* C35: the broker never holds two market buy orders of one signal.
C35_OneBuyPerSignal == \A i \in Ids : Cardinality(BuyOrdersOf(i)) <= 1

\* C36: an entry signal that is EXECUTED or EXECUTED_NO_STOP has exactly one
\* buy row in executed_trades.
C36_OneTradePerFill ==
  \A i \in Ids :
    (/\ trade_signals[i].status \in {"EXECUTED", "EXECUTED_NO_STOP"}
     /\ ~ IsExitType(trade_signals[i].signal_type)) =>
      Cardinality(BuyTradesOf(i)) = 1

\* -------------------------------------------------------------------------
\* Exit signals of one symbol
\* -------------------------------------------------------------------------
\* C37 as stated: a symbol never has two exit signals that are PENDING or
\* SIZED.
C37_OneOpenExit ==
  \A i, j \in Ids :
    (/\ IsExitType(trade_signals[i].signal_type)
     /\ IsExitType(trade_signals[j].signal_type)
     /\ trade_signals[i].symbol = trade_signals[j].symbol
     /\ Status(i) \in {"PENDING", "SIZED"}
     /\ Status(j) \in {"PENDING", "SIZED"}) => i = j

\* C37: of two exit signals of one symbol the earlier one is no longer
\* PENDING, under every interleaving of the strategy, the risk manager and
\* the executor; so at most one exit signal of a symbol is PENDING, while an
\* earlier one may still be SIZED.
C37_EarlierExitLeftPending ==
  \A i, j \in Ids :
    (/\ i < j
     /\ IsExitType(trade_signals[i].signal_type)
     /\ IsExitType(trade_signals[j].signal_type)
     /\ trade_signals[i].symbol = trade_signals[j].symbol) =>
      Status(i) # "PENDING"

\* a second exit signal of the symbol is PENDING while the first is SIZED
C37_Witness ==
  \E i, j \in Ids :
    /\ i < j
    /\ IsExitType(trade_signals[i].signal_type)
    /\ IsExitType(trade_signals[j].signal_type)
    /\ trade_signals[i].symbol = trade_signals[j].symbol
    /\ Status(i) = "SIZED"
    /\ Status(j) = "PENDING"

\* -------------------------------------------------------------------------
\* The entries pass when the breaker trips
\* -------------------------------------------------------------------------
\* C38: a step of the entries pass that ends with the breaker tripped (the
\* submit_order failure that trips it, or a later row of the pass) changes
\* no signal and no order: its row stays SIZED with no order id; and once
\* the breaker is tripped the broker is not called for the rows that follow.
C38_TripLeavesSized ==
  [][(ex_pc = "sized" /\ ex_rows # << >> /\ circuit_breaker_tripped') =>
       /\ trade_signals' = trade_signals
       /\ orders' = orders
       /\ Status(Head(ex_rows)) = "SIZED"
       /\ trade_signals'[Head(ex_rows)].order_id = NULL
       /\ ev'.call = "submit_buy"
       /\ ev'.id = Head(ex_rows)
       /\ circuit_breaker_tripped => ~ ev'.made]_vars

\* the first row's submit_order tripped the breaker, the second row was
\* reached without a broker call: both are SIZED with no order id
C38_Witness ==
  /\ circuit_breaker_tripped
  /\ ex_pc = "sized"
  /\ ex_rows = << >>
  /\ ev.call = "submit_buy"
  /\ ~ ev.made
  /\ orders = << >>
  /\ \A i \in Ids : Status(i) = "SIZED" /\ trade_signals[i].order_id = NULL
  /\ Cardinality(Ids) = 2

\* -------------------------------------------------------------------------
\* Orders sent to the broker
\* -------------------------------------------------------------------------
\* C39: every market buy the broker received has a quantity above 0, and
\* every trailing stop has either a trail_price above 0 and no
\* trail_percent, or trail_percent 2.0 and no trail_price.
C39_WellFormedOrders ==
  \A o \in DOMAIN orders :
    /\ (orders[o].side = "buy" /\ orders[o].type = "market") => orders[o].qty > 0
    /\ orders[o].type = "trailing_stop" =>
         \/ /\ orders[o].trail_price # NULL
            /\ orders[o].trail_price > 0
            /\ orders[o].trail_percent = NULL
         \/ /\ orders[o].trail_price = NULL
            /\ orders[o].trail_percent = TRAIL_PERCENT_DEFAULT

\* -------------------------------------------------------------------------
\* Worker loops under FORCE_AWAKE
\* -------------------------------------------------------------------------
\* C40: under FORCE_AWAKE a smart_sleep that has returned has slept every
\* second of the duration computed for it, and that is at least one second.
C40_NoBusySpin ==
  (sleep_mode = "FORCE_AWAKE" /\ sl_pc \in {"done", "woken"}) =>
    /\ sl_pc = "done"
    /\ slept = sleep_seconds
    /\ slept > 0

====
